---- MODULE Spec2Model ----
(***************************************************************************)
(* Authentication and session lifecycle of the StaplerCup social media     *)
(* manager: users, refresh tokens and e-mail verification tokens in the    *)
(* relational store, and the request handlers that read and write them.    *)
(*                                                                         *)
(* Two deployment variants share the store schema.  In the serverless      *)
(* variant (src/api) every store access is awaited, so handlers of         *)
(* different requests interleave at each statement.  In the long-running   *)
(* variant (src/backend, better-sqlite3) store accesses are synchronous    *)
(* and a handler runs without interruption between two awaits.             *)
(*                                                                         *)
(* Time is counted in abstract ticks.  Row timestamps created_at and       *)
(* updated_at are not modelled: no handler reads them.                     *)
(***************************************************************************)
EXTENDS Integers, Sequences, FiniteSets, TLC

\* ------------------------------------------------------------------ bounds
NumProcs == 2          \* requests in flight at the same time
MaxRefreshTokens == 3  \* refresh tokens generated in one run
MaxVerifTokens == 2    \* verification tokens generated in one run
MaxUsers == 3          \* user ids handed out in one run

\* Lifetimes, in ticks.
AccessTTL == 1         \* JWT_EXPIRES_IN, 15 minutes
RefreshTTL == 1        \* REFRESH_TOKEN_EXPIRES_IN, 7 days
VerificationTTL == 1   \* 24 hours
MaxTime == RefreshTTL + 1  \* last tick of the clock: every lifetime can end

MinPasswordLen == 8

Procs == 1..NumProcs

VARIABLES
  variant,    \* "serverless" (src/api) or "server" (src/backend)
  sched,      \* "sequential": one request at a time; "interleaved": any
  regEnabled, \* REGISTRATION_ENABLED is not 'false'
  now,        \* the clock
  users,      \* table users
  nextUid,    \* next value of the users.id sequence
  rts,        \* table refresh_tokens
  nextRT,     \* number of refresh tokens generated so far
  vts,        \* table email_verification_tokens
  nextVT,     \* number of verification tokens generated so far
  issued,     \* unexpired access tokens that clients hold
  expiredIssued, \* some access token handed to a client has expired
  pc,         \* per request slot: the statement the handler is waiting at
  loc,        \* per request slot: the handler's local variables
  lastRet,    \* the response of the call that returned last
  rotated,    \* refresh tokens that a refresh call has answered with success
  mailed,     \* verification tokens that sendVerificationEmail was called with
  client      \* the browser's API client: isRefreshing, failedQueue, its requests

serverVars == <<variant, sched, regEnabled, now, users, nextUid, rts, nextRT, vts, nextVT,
                issued, expiredIssued, pc, loc, lastRet, rotated, mailed>>
vars == <<variant, sched, regEnabled, now, users, nextUid, rts, nextRT, vts, nextVT,
          issued, expiredIssued, pc, loc, lastRet, rotated, mailed, client>>

\* ------------------------------------------------------------ input values
Roles == {"admin", "manager", "viewer"}

EmailA == <<"a", "@", "x", ".", "t">>
EmailB == <<"b", "@", "x", ".", "t">>
EmailBad == <<"a", "@", "x">>
Emails == {EmailA, EmailB}

Passwords == {"Secret123", "longenough1"}
Names == {"Uli", "Admin"}

\* Refresh token cookie values: none, a value that was never issued, or a
\* generated token (a positive number).
NoToken == 0
UnknownToken == -1

\* ------------------------------------------------------------- error texts
ErrLoginFields == "E-Mail und Passwort sind erforderlich"
ErrInvalidCredentials == "Ungueltige Anmeldedaten"
ErrNoRefreshToken == "Kein Refresh-Token vorhanden"
ErrInvalidRefreshToken == "Ungueltiger Refresh-Token"
ErrRefreshExpired == "Refresh-Token abgelaufen"
ErrUserNotFound == "Benutzer nicht gefunden"
ErrInternal == "Interner Serverfehler"
ErrNotAuthenticated == "Nicht authentifiziert"
ErrAuthRequired == "Authentifizierung erforderlich"
ErrInvalidToken == "Ungueltiger Token"
ErrTokenExpired == "Token abgelaufen"
ErrForbidden == "Keine Berechtigung"
ErrRegistrationDisabled == "Registrierung ist deaktiviert"
ErrRegisterFields == "E-Mail, Passwort und Name sind erforderlich"
ErrEmailFormat == "Ungueltiges E-Mail-Format"
ErrPasswordLength == "Das Passwort muss mindestens 8 Zeichen lang sein"
ErrDuplicateEmail == "Ein Benutzer mit dieser E-Mail existiert bereits"
ErrMailFailed == "E-Mail konnte nicht gesendet werden. Bitte versuchen Sie es spaeter erneut."
ErrVerifyMissing == "Verifizierungstoken fehlt"
ErrVerifyInvalid == "Ungueltiger oder abgelaufener Verifizierungstoken"
ErrVerifyExpired == "Verifizierungstoken ist abgelaufen"
ErrInvalidRole == "Ungueltige Rolle"
ErrInitSecret == "Invalid init secret"
ErrInitFailed == "Initialization failed"
ErrForbiddenAction == "Keine Berechtigung fuer diese Aktion"
ErrNotFound == "Benutzer nicht gefunden"
ErrSelfDelete == "Sie koennen sich nicht selbst loeschen"
ErrOwnRole == "Sie koennen Ihre eigene Rolle nicht aendern"
NoError == ""

\* ------------------------------------------------------------ pure helpers
\* bcrypt: the hash is not the password, and compare() recomputes it.
hashPassword(password) == [alg |-> "bcrypt", cost |-> 12, of |-> password]

verifyPassword(password, hash) == hash = hashPassword(password)

toPublicUser(user) ==
  [id |-> user.id, email |-> user.email, name |-> user.name,
   role |-> user.role, email_verified |-> user.email_verified]

\* generateAccessToken signing a payload without the user's role.
generateAccessTokenDefaultRole(user, t) ==
  [userId |-> user.id, email |-> user.email, role |-> "viewer",
   exp |-> t + AccessTTL]

generateAccessToken(user, t) ==
  [userId |-> user.id, email |-> user.email, role |-> user.role,
   exp |-> t + AccessTTL]

getRefreshTokenExpiry(t) == t + RefreshTTL

getVerificationTokenExpiry(t) == t + VerificationTTL

\* Authorization headers a client can send.
NoHeader == [scheme |-> "none", signed |-> FALSE, payload |-> {}]
BasicHeader == [scheme |-> "Basic", signed |-> FALSE, payload |-> {}]
ForgedHeader == [scheme |-> "Bearer", signed |-> FALSE, payload |-> {}]
Bearer(tok) == [scheme |-> "Bearer", signed |-> TRUE, payload |-> {tok}]
\* Every expired token is answered alike, so one stands for all of them.
ExpiredHeader ==
  Bearer([userId |-> 0, email |-> <<>>, role |-> "viewer", exp |-> 0])
Headers ==
  {NoHeader, BasicHeader, ForgedHeader}
    \cup {Bearer(tok) : tok \in issued}
    \cup (IF expiredIssued THEN {ExpiredHeader} ELSE {})

getTokenFromHeader(h) == IF h.scheme = "Bearer" THEN {h} ELSE {}

\* verifyAccessToken answering with the role the user has in the store.
verifyAccessTokenCurrentRole(h, t) ==
  IF ~h.signed THEN [ok |-> FALSE, name |-> "JsonWebTokenError", payload |-> {}]
  ELSE IF \E tok \in h.payload : t >= tok.exp
       THEN [ok |-> FALSE, name |-> "TokenExpiredError", payload |-> {}]
       ELSE [ok |-> TRUE, name |-> "",
             payload |-> {[tok EXCEPT !.role = (CHOOSE u \in users : u.id = tok.userId).role] :
                            tok \in {k \in h.payload : \E u \in users : u.id = k.userId}}]

\* jwt.verify: the decoded payload, or the name of the error it throws.
verifyAccessToken(h, t) ==
  IF ~h.signed THEN [ok |-> FALSE, name |-> "JsonWebTokenError", payload |-> {}]
  ELSE IF \E tok \in h.payload : t >= tok.exp
       THEN [ok |-> FALSE, name |-> "TokenExpiredError", payload |-> {}]
       ELSE [ok |-> TRUE, name |-> "", payload |-> h.payload]

\* ------------------------------------------------------------- the store
findUserByEmail(email) == {u \in users : u.email = email}
findUserById(id) == {u \in users : u.id = id}
findRefreshToken(token) == {r \in rts : r.token = token}
findVerificationToken(token) == {v \in vts : v.token = token}

\* The one element of a singleton set.
The(S) == CHOOSE x \in S : TRUE

\* --------------------------------------------------------- request slots
IdleLoc ==
  [op |-> "none", arg |-> 0, hdr |-> NoHeader, row |-> {}, user |-> {},
   access |-> {}, found |-> FALSE, body |-> {}, tok |-> 0, exp |-> 0,
   preRts |-> {}, preUsers |-> {}, preVts |-> {}]

OthersIdle(p) == \A q \in Procs \ {p} : pc[q] = "idle"
AllIdle == \A q \in Procs : pc[q] = "idle"

\* Slot p may take a new request.  Under the sequential schedule requests
\* arrive one after the other, each after the previous one was answered.
CanStart(p) ==
  /\ pc[p] = "idle"
  /\ sched = "sequential" => (p = 1 /\ AllIdle)

\* Under the sequential schedule a handler's slot keeps the tables as they
\* were when the request arrived.
Snapshot(table) == IF sched = "sequential" THEN table ELSE {}

\* A response: status and error text of the JSON body, the refresh token of
\* the Set-Cookie header (NoToken: no cookie set), the access token and the
\* public user of the body.
Response(op, arg, status, error, cookie, access, user, found) ==
  [op |-> op, arg |-> arg, status |-> status, error |-> error,
   cookie |-> cookie, access |-> access, user |-> user, found |-> found,
   code |-> "", seq |-> 0, after |-> ""]

ClearedCookie == -2

\* Slot p starts or continues a handler, which then waits at statement next.
Await(p, next, l) ==
  /\ pc' = [pc EXCEPT ![p] = next]
  /\ loc' = [loc EXCEPT ![p] = l]
  /\ lastRet' = lastRet
  /\ rotated' = rotated
  /\ mailed' = mailed
  /\ client' = client

\* Operations whose argument is a refresh token cookie.
CookieOps == {"refresh", "logout"}

\* The operation that the previous response answered, when that response was
\* a success and its call had the argument of the call that r answers.
Preceding(r) ==
  IF lastRet.status \in {200, 201}
     /\ (lastRet.op = r.op \/ {lastRet.op, r.op} \subseteq CookieOps)
     /\ lastRet.arg = r.arg
  THEN lastRet.op ELSE ""

\* The response r as lastRet records it: seq alternates, so that every
\* response changes lastRet, and after names the call that preceded.
Recorded(r) == [r EXCEPT !.seq = 1 - lastRet.seq, !.after = Preceding(r)]

Rotated(r) ==
  IF r.op = "refresh" /\ r.status = 200 THEN rotated \cup {r.arg} ELSE rotated

\* The handler of slot p answers after sendVerificationEmail resolved.
Mailed(p) ==
  IF pc[p] \in {"register_mail", "router_register_mail"}
  THEN mailed \cup {loc[p].tok} ELSE mailed

\* Slot p sends response r and becomes idle.
Return(p, r) ==
  /\ pc' = [pc EXCEPT ![p] = "idle"]
  /\ loc' = [loc EXCEPT ![p] = IdleLoc]
  /\ lastRet' = Recorded(r)
  /\ rotated' = Rotated(r)
  /\ mailed' = Mailed(p)
  /\ client' = client

\* A handler that runs without interruption, outside the request slots.
ReturnAtomic(r) ==
  /\ sched = "sequential" => AllIdle
  /\ lastRet' = Recorded(r)
  /\ rotated' = Rotated(r)
  /\ UNCHANGED <<pc, loc, mailed, client>>

\* ---------------------------------------------------------- store writes
\* The insert without the reference from user_id to users(id).
saveRefreshTokenUnchecked(userId) == FALSE

\* INSERT INTO refresh_tokens: user_id REFERENCES users(id), so the insert
\* throws when the user row is gone.
saveRefreshTokenFails(userId) == findUserById(userId) = {}

saveRefreshToken(userId, token, expiresAt) ==
  rts' = rts \cup {[token |-> token, user_id |-> userId, expires_at |-> expiresAt]}

\* The delete taking every token of the presented token's owner.
deleteRefreshTokenOfOwner(token) ==
  rts' = {r \in rts : \A s \in rts : s.token = token => r.user_id # s.user_id}

deleteRefreshToken(token) == rts' = {r \in rts : r.token # token}

\* crypto.randomBytes(64): a value that no earlier call produced.
generateRefreshToken == nextRT + 1

\* ----------------------------------------------------- the clock and GC
Tick ==
  /\ now < MaxTime
  /\ now' = now + 1
  /\ issued' = {tok \in issued : tok.exp > now + 1}
  /\ expiredIssued' = (expiredIssued \/ \E tok \in issued : tok.exp <= now + 1)
  /\ UNCHANGED <<variant, sched, regEnabled, users, nextUid, rts, nextRT, vts, nextVT,
                 pc, loc, lastRet, rotated, mailed, client>>

\* ------------------------------------------- serverless: POST /auth/login
\* handleLogin answering an unknown address with its own status and error.
handleLoginNamingUnknown(p, email, password) ==
  LET user == findUserByEmail(email)
      arg == [email |-> email, password |-> password] IN
  /\ variant = "serverless"
  /\ CanStart(p)
  /\ IF email = <<>> \/ password = ""
     THEN Return(p, Response("login", arg, 400, ErrLoginFields, NoToken, {}, {}, FALSE))
     ELSE IF user = {}
     THEN Return(p, Response("login", arg, 404, ErrUserNotFound, NoToken, {}, {}, FALSE))
     ELSE IF ~verifyPassword(password, The(user).password_hash)
     THEN Return(p, Response("login", arg, 401, ErrInvalidCredentials, NoToken, {}, {}, TRUE))
     ELSE Await(p, "login_save",
                [IdleLoc EXCEPT !.op = "login", !.arg = arg, !.user = user,
                                !.found = TRUE, !.preRts = Snapshot(rts)])
  /\ UNCHANGED <<variant, sched, regEnabled, now, users, nextUid, rts, nextRT, vts,
                 nextVT, issued, expiredIssued>>

handleLogin(p, email, password) ==
  LET user == findUserByEmail(email)
      arg == [email |-> email, password |-> password] IN
  /\ variant = "serverless"
  /\ CanStart(p)
  /\ IF email = <<>> \/ password = ""
     THEN Return(p, Response("login", arg, 400, ErrLoginFields, NoToken, {}, {}, FALSE))
     ELSE IF user = {}
     THEN Return(p, Response("login", arg, 401, ErrInvalidCredentials, NoToken, {}, {}, FALSE))
     ELSE IF ~verifyPassword(password, The(user).password_hash)
     THEN Return(p, Response("login", arg, 401, ErrInvalidCredentials, NoToken, {}, {}, TRUE))
     ELSE Await(p, "login_save",
                [IdleLoc EXCEPT !.op = "login", !.arg = arg, !.user = user,
                                !.found = TRUE, !.preRts = Snapshot(rts)])
  /\ UNCHANGED <<variant, sched, regEnabled, now, users, nextUid, rts, nextRT, vts,
                 nextVT, issued, expiredIssued>>

handleLoginSave(p) ==
  LET user == The(loc[p].user)
      accessToken == generateAccessToken(user, now)
      refreshToken == generateRefreshToken IN
  /\ pc[p] = "login_save"
  /\ nextRT < MaxRefreshTokens
  /\ nextRT' = nextRT + 1
  /\ IF saveRefreshTokenFails(user.id)
     THEN /\ Return(p, Response("login", loc[p].arg, 500, ErrInternal, NoToken, {}, {}, TRUE))
          /\ UNCHANGED <<rts, issued>>
     ELSE /\ saveRefreshToken(user.id, refreshToken, getRefreshTokenExpiry(now))
          /\ issued' = issued \cup {accessToken}
          /\ Return(p, Response("login", loc[p].arg, 200, NoError, refreshToken,
                                {accessToken}, {toPublicUser(user)}, TRUE))
  /\ UNCHANGED <<variant, sched, regEnabled, now, users, nextUid, vts, nextVT,
                 expiredIssued>>

\* ----------------------------------------- serverless: POST /auth/refresh
handleRefresh(p, refreshToken) ==
  LET storedToken == findRefreshToken(refreshToken) IN
  /\ variant = "serverless"
  /\ CanStart(p)
  /\ IF refreshToken = NoToken
     THEN Return(p, Response("refresh", refreshToken, 401, ErrNoRefreshToken, NoToken, {}, {}, FALSE))
     ELSE IF storedToken = {}
     THEN Return(p, Response("refresh", refreshToken, 401, ErrInvalidRefreshToken, NoToken, {}, {}, FALSE))
     ELSE Await(p, "refresh_found",
                [IdleLoc EXCEPT !.op = "refresh", !.arg = refreshToken,
                                !.row = storedToken, !.found = TRUE,
                                !.preRts = Snapshot(rts), !.preUsers = Snapshot(users)])
  /\ UNCHANGED <<variant, sched, regEnabled, now, users, nextUid, rts, nextRT, vts,
                 nextVT, issued, expiredIssued>>

\* handleRefreshFound rejecting an expired token without deleting it.
handleRefreshFoundKeepingExpired(p) ==
  LET storedToken == The(loc[p].row)
      user == findUserById(storedToken.user_id) IN
  /\ pc[p] = "refresh_found"
  /\ rts' = rts
  /\ IF storedToken.expires_at < now
     THEN Return(p, Response("refresh", loc[p].arg, 401, ErrRefreshExpired, NoToken, {}, {}, TRUE))
     ELSE Await(p, IF user = {} THEN "refresh_orphan" ELSE "refresh_rotate",
                [loc[p] EXCEPT !.user = user])
  /\ UNCHANGED <<variant, sched, regEnabled, now, users, nextUid, nextRT, vts, nextVT,
                 issued, expiredIssued>>

\* The expiry check, then either the delete of the expired token or the
\* lookup of the owner.
handleRefreshFound(p) ==
  LET storedToken == The(loc[p].row)
      user == findUserById(storedToken.user_id) IN
  /\ pc[p] = "refresh_found"
  /\ IF storedToken.expires_at < now
     THEN /\ deleteRefreshToken(loc[p].arg)
          /\ Return(p, Response("refresh", loc[p].arg, 401, ErrRefreshExpired, NoToken, {}, {}, TRUE))
     ELSE /\ rts' = rts
          /\ Await(p, IF user = {} THEN "refresh_orphan" ELSE "refresh_rotate",
                   [loc[p] EXCEPT !.user = user])
  /\ UNCHANGED <<variant, sched, regEnabled, now, users, nextUid, nextRT, vts, nextVT,
                 issued, expiredIssued>>

handleRefreshOrphan(p) ==
  /\ pc[p] = "refresh_orphan"
  /\ deleteRefreshToken(loc[p].arg)
  /\ Return(p, Response("refresh", loc[p].arg, 401, ErrUserNotFound, NoToken, {}, {}, TRUE))
  /\ UNCHANGED <<variant, sched, regEnabled, now, users, nextUid, nextRT, vts, nextVT,
                 issued, expiredIssued>>

\* handleRefreshRotate without the delete of the presented token.
handleRefreshRotateKeepingToken(p) ==
  /\ pc[p] = "refresh_rotate"
  /\ rts' = rts
  /\ Await(p, "refresh_save",
           [loc[p] EXCEPT !.access = {generateAccessToken(The(loc[p].user), now)}])
  /\ UNCHANGED <<variant, sched, regEnabled, now, users, nextUid, nextRT, vts, nextVT,
                 issued, expiredIssued>>

handleRefreshRotate(p) ==
  /\ pc[p] = "refresh_rotate"
  /\ deleteRefreshToken(loc[p].arg)
  /\ Await(p, "refresh_save",
           [loc[p] EXCEPT !.access = {generateAccessToken(The(loc[p].user), now)}])
  /\ UNCHANGED <<variant, sched, regEnabled, now, users, nextUid, nextRT, vts, nextVT,
                 issued, expiredIssued>>

handleRefreshSave(p) ==
  LET user == The(loc[p].user)
      newRefreshToken == generateRefreshToken IN
  /\ pc[p] = "refresh_save"
  /\ nextRT < MaxRefreshTokens
  /\ nextRT' = nextRT + 1
  /\ IF saveRefreshTokenFails(user.id)
     THEN /\ Return(p, Response("refresh", loc[p].arg, 500, ErrInternal, NoToken, {}, {}, TRUE))
          /\ UNCHANGED <<rts, issued>>
     ELSE /\ saveRefreshToken(user.id, newRefreshToken, getRefreshTokenExpiry(now))
          /\ issued' = issued \cup {tok \in loc[p].access : tok.exp > now}
          /\ Return(p, Response("refresh", loc[p].arg, 200, NoError, newRefreshToken,
                                loc[p].access, {toPublicUser(user)}, TRUE))
  /\ UNCHANGED <<variant, sched, regEnabled, now, users, nextUid, vts, nextVT>>
  /\ expiredIssued' = (expiredIssued \/ \E tok \in loc[p].access : tok.exp <= now)

\* ------------------------------------------ serverless: POST /auth/logout
handleLogout(p, refreshToken) ==
  /\ variant = "serverless"
  /\ CanStart(p)
  /\ IF refreshToken # NoToken THEN deleteRefreshToken(refreshToken) ELSE rts' = rts
  /\ Return(p, Response("logout", refreshToken, 200, NoError, ClearedCookie, {}, {},
                        findRefreshToken(refreshToken) # {}))
  /\ UNCHANGED <<variant, sched, regEnabled, now, users, nextUid, nextRT, vts, nextVT,
                 issued, expiredIssued>>

\* --------------------------------------- serverless: DELETE /api/users/id
\* The checks every user-management endpoint of src/api makes on the access
\* token: the status and error it answers with, 0 when the request passes.
\* The check of the serverless user management without the role test.
adminCheckOfAnyone(hdr) ==
  LET v == verifyAccessToken(hdr, now) IN
  IF getTokenFromHeader(hdr) = {}
  THEN [status |-> 401, error |-> ErrNotAuthenticated, payload |-> {}]
  ELSE IF ~v.ok
  THEN [status |-> 401, error |-> ErrInvalidToken, payload |-> {}]
  ELSE [status |-> 0, error |-> NoError, payload |-> v.payload]

\* getTokenFromHeader, verifyAccessToken and the role test that open every
\* handler of the serverless user management.
adminCheck(hdr) ==
  LET v == verifyAccessToken(hdr, now) IN
  IF getTokenFromHeader(hdr) = {}
  THEN [status |-> 401, error |-> ErrNotAuthenticated, payload |-> {}]
  ELSE IF ~v.ok
  THEN [status |-> 401, error |-> ErrInvalidToken, payload |-> {}]
  ELSE IF The(v.payload).role # "admin"
  THEN [status |-> 403, error |-> ErrForbidden, payload |-> v.payload]
  ELSE [status |-> 0, error |-> NoError, payload |-> v.payload]

deleteUserRefreshTokens(userId) == rts' = {r \in rts : r.user_id # userId}

\* DELETE FROM users; refresh_tokens.user_id is ON DELETE CASCADE.
deleteUser(userId) ==
  /\ users' = {u \in users : u.id # userId}
  /\ rts' = {r \in rts : r.user_id # userId}

handleDeleteUser(p, hdr, userId) ==
  LET chk == adminCheck(hdr) IN
  /\ variant = "serverless"
  /\ CanStart(p)
  /\ IF chk.status # 0
     THEN /\ Return(p, Response("deleteUser", userId, chk.status, chk.error, NoToken, {}, {}, FALSE))
          /\ rts' = rts
     ELSE IF The(chk.payload).userId = userId
     THEN /\ Return(p, Response("deleteUser", userId, 400, ErrSelfDelete, NoToken, {}, {}, FALSE))
          /\ rts' = rts
     ELSE /\ deleteUserRefreshTokens(userId)
          /\ Await(p, "delete_user",
                   [IdleLoc EXCEPT !.op = "deleteUser", !.arg = userId, !.hdr = hdr])
  /\ UNCHANGED <<variant, sched, regEnabled, now, users, nextUid, nextRT, vts, nextVT,
                 issued, expiredIssued>>

handleDeleteUserRow(p) ==
  LET userId == loc[p].arg
      deleted == findUserById(userId) # {} IN
  /\ pc[p] = "delete_user"
  /\ deleteUser(userId)
  /\ IF deleted
     THEN Return(p, Response("deleteUser", userId, 200, NoError, NoToken, {}, {}, TRUE))
     ELSE Return(p, Response("deleteUser", userId, 404, ErrNotFound, NoToken, {}, {}, FALSE))
  /\ UNCHANGED <<variant, sched, regEnabled, now, nextUid, nextRT, vts, nextVT, issued,
                 expiredIssued>>

\* ------------------------------------ serverless: PUT /api/users/id/role
\* UPDATE users SET role: whether a row changed.
updateUserRole(userId, role) ==
  users' = {IF u.id = userId THEN [u EXCEPT !.role = role] ELSE u : u \in users}

handleUpdateRole(p, hdr, userId, role) ==
  LET chk == adminCheck(hdr)
      arg == [id |-> userId, role |-> role]
      Fail(status, error) ==
        /\ Return(p, Response("updateRole", arg, status, error, NoToken, {}, {}, FALSE))
        /\ users' = users IN
  /\ variant = "serverless"
  /\ CanStart(p)
  /\ IF chk.status # 0 THEN Fail(chk.status, chk.error)
     ELSE IF role \notin Roles THEN Fail(400, ErrInvalidRole)
     ELSE IF The(chk.payload).userId = userId THEN Fail(400, ErrOwnRole)
     ELSE IF findUserById(userId) = {} THEN Fail(404, ErrNotFound)
     ELSE /\ updateUserRole(userId, role)
          /\ Await(p, "role_read",
                   [IdleLoc EXCEPT !.op = "updateRole", !.arg = arg, !.hdr = hdr])
  /\ UNCHANGED <<variant, sched, regEnabled, now, nextUid, rts, nextRT, vts, nextVT,
                 issued, expiredIssued>>

\* findUserById after the update: the body carries the row, or null.
handleUpdateRoleRead(p) ==
  LET user == findUserById(loc[p].arg.id) IN
  /\ pc[p] = "role_read"
  /\ Return(p, Response("updateRole", loc[p].arg, 200, NoError, NoToken, {},
                        {toPublicUser(u) : u \in user}, user # {}))
  /\ UNCHANGED <<variant, sched, regEnabled, now, users, nextUid, rts, nextRT, vts,
                 nextVT, issued, expiredIssued>>

\* ----------------------------------- serverless: PUT /users/:id/name
ErrNameRequired == "Name ist erforderlich"
NameBodies == {"", " ", " Neu"}

\* String.prototype.trim on the names above.
trim(name) == IF name = " " THEN "" ELSE IF name = " Neu" THEN "Neu" ELSE name

updateUserName(userId, name) ==
  users' = {IF u.id = userId THEN [u EXCEPT !.name = name] ELSE u : u \in users}

handleUpdateName(p, hdr, userId, name) ==
  LET chk == adminCheck(hdr)
      arg == [id |-> userId, name |-> name]
      Fail(status, error) ==
        /\ Return(p, Response("updateName", arg, status, error, NoToken, {}, {}, FALSE))
        /\ users' = users IN
  /\ variant = "serverless"
  /\ CanStart(p)
  /\ IF chk.status # 0 THEN Fail(chk.status, chk.error)
     ELSE IF name = "" \/ trim(name) = "" THEN Fail(400, ErrNameRequired)
     ELSE IF findUserById(userId) = {} THEN Fail(404, ErrNotFound)
     ELSE /\ updateUserName(userId, trim(name))
          /\ Await(p, "name_read",
                   [IdleLoc EXCEPT !.op = "updateName", !.arg = arg, !.hdr = hdr])
  /\ UNCHANGED <<variant, sched, regEnabled, now, nextUid, rts, nextRT, vts, nextVT,
                 issued, expiredIssued>>

\* findUserById after the update: the body carries the row, or null.
handleUpdateNameRead(p) ==
  LET user == findUserById(loc[p].arg.id) IN
  /\ pc[p] = "name_read"
  /\ Return(p, Response("updateName", loc[p].arg, 200, NoError, NoToken, {},
                        {toPublicUser(u) : u \in user}, user # {}))
  /\ UNCHANGED <<variant, sched, regEnabled, now, users, nextUid, rts, nextRT, vts,
                 nextVT, issued, expiredIssued>>

\* ------------------------------------------- serverless: GET /auth/me
handleMe(p, hdr) ==
  LET v == verifyAccessToken(hdr, now) IN
  /\ variant = "serverless"
  /\ CanStart(p)
  /\ IF getTokenFromHeader(hdr) = {}
     THEN Return(p, Response("me", hdr, 401, ErrNotAuthenticated, NoToken, {}, {}, FALSE))
     ELSE IF ~v.ok
     THEN Return(p, Response("me", hdr, 401, ErrInvalidToken, NoToken, {}, {}, FALSE))
     ELSE Await(p, "me_user", [IdleLoc EXCEPT !.op = "me", !.hdr = hdr, !.user = v.payload])
  /\ UNCHANGED <<variant, sched, regEnabled, now, users, nextUid, rts, nextRT, vts, nextVT,
                 issued, expiredIssued>>

handleMeUser(p) ==
  LET user == findUserById(The(loc[p].user).userId) IN
  /\ pc[p] = "me_user"
  /\ IF user = {}
     THEN Return(p, Response("me", loc[p].hdr, 404, ErrNotFound, NoToken, {}, {}, FALSE))
     ELSE Return(p, Response("me", loc[p].hdr, 200, NoError, NoToken, {},
                             {toPublicUser(u) : u \in user}, TRUE))
  /\ UNCHANGED <<variant, sched, regEnabled, now, users, nextUid, rts, nextRT, vts, nextVT,
                 issued, expiredIssued>>

\* ------------------------------------------------ server: the middleware
Pass == [pass |-> TRUE, status |-> 0, error |-> NoError, code |-> "", user |-> {}]
Reject(status, error, code) ==
  [pass |-> FALSE, status |-> status, error |-> error, code |-> code, user |-> {}]

\* The outcome of requireAuth for a request with Authorization header hdr:
\* the rejection it sends, or pass with req.user set.
requireAuth(hdr) ==
  LET v == verifyAccessToken(hdr, now) IN
  IF hdr.scheme # "Bearer" THEN Reject(401, ErrAuthRequired, "")
  ELSE IF v.ok THEN [Pass EXCEPT !.user = v.payload]
  ELSE IF v.name = "TokenExpiredError" THEN Reject(401, ErrTokenExpired, "TOKEN_EXPIRED")
  ELSE Reject(401, ErrInvalidToken, "")

\* The outcome of requireRole(roles) for a request whose req.user is reqUser.
\* requireRole letting every authenticated request through.
requireRoleOfAnyone(roles, reqUser) ==
  IF reqUser = {} THEN Reject(401, ErrAuthRequired, "")
  ELSE [Pass EXCEPT !.user = reqUser]

requireRole(roles, reqUser) ==
  IF reqUser = {} THEN Reject(401, ErrAuthRequired, "")
  ELSE IF The(reqUser).role \notin roles THEN Reject(403, ErrForbiddenAction, "")
  ELSE [Pass EXCEPT !.user = reqUser]

Rejection(op, arg, m) ==
  [Response(op, arg, m.status, m.error, NoToken, {}, {}, FALSE) EXCEPT !.code = m.code]

\* ---------------------------------------------- server: POST /auth/login
\* findUserByEmail is synchronous; the handler yields at verifyPassword.
routerLogin(p, email, password) ==
  LET user == findUserByEmail(email)
      arg == [email |-> email, password |-> password] IN
  /\ variant = "server"
  /\ CanStart(p)
  /\ IF email = <<>> \/ password = ""
     THEN Return(p, Response("login", arg, 400, ErrLoginFields, NoToken, {}, {}, FALSE))
     ELSE IF user = {}
     THEN Return(p, Response("login", arg, 401, ErrInvalidCredentials, NoToken, {}, {}, FALSE))
     ELSE Await(p, "router_login_verify",
                [IdleLoc EXCEPT !.op = "login", !.arg = arg, !.user = user,
                                !.found = TRUE, !.preRts = Snapshot(rts)])
  /\ UNCHANGED <<variant, sched, regEnabled, now, users, nextUid, rts, nextRT, vts,
                 nextVT, issued, expiredIssued>>

routerLoginVerified(p) ==
  LET user == The(loc[p].user)
      accessToken == generateAccessToken(user, now)
      refreshToken == generateRefreshToken IN
  /\ pc[p] = "router_login_verify"
  /\ IF ~verifyPassword(loc[p].arg.password, user.password_hash)
     THEN /\ Return(p, Response("login", loc[p].arg, 401, ErrInvalidCredentials, NoToken, {}, {}, TRUE))
          /\ UNCHANGED <<rts, nextRT, issued>>
     ELSE /\ nextRT < MaxRefreshTokens
          /\ nextRT' = nextRT + 1
          /\ IF saveRefreshTokenFails(user.id)
             THEN /\ Return(p, Response("login", loc[p].arg, 500, ErrInternal, NoToken, {}, {}, TRUE))
                  /\ UNCHANGED <<rts, issued>>
             ELSE /\ saveRefreshToken(user.id, refreshToken, getRefreshTokenExpiry(now))
                  /\ issued' = issued \cup {accessToken}
                  /\ Return(p, Response("login", loc[p].arg, 200, NoError, refreshToken,
                                        {accessToken}, {toPublicUser(user)}, TRUE))
  /\ UNCHANGED <<variant, sched, regEnabled, now, users, nextUid, vts, nextVT,
                 expiredIssued>>

\* -------------------------------------------- server: POST /auth/refresh
\* The refresh route without the delete of the presented token.
routerRefreshKeepingToken(refreshToken) ==
  LET storedToken == findRefreshToken(refreshToken)
      user == findUserById(The(storedToken).user_id)
      accessToken == generateAccessToken(The(user), now)
      newRefreshToken == generateRefreshToken
      Fail(error, found) ==
        ReturnAtomic(Response("refresh", refreshToken, 401, error, NoToken, {}, {}, found)) IN
  /\ variant = "server"
  /\ IF refreshToken = NoToken
     THEN Fail(ErrNoRefreshToken, FALSE) /\ UNCHANGED <<rts, nextRT, issued>>
     ELSE IF storedToken = {}
     THEN Fail(ErrInvalidRefreshToken, FALSE) /\ UNCHANGED <<rts, nextRT, issued>>
     ELSE IF The(storedToken).expires_at < now
     THEN Fail(ErrRefreshExpired, TRUE) /\ deleteRefreshToken(refreshToken)
          /\ UNCHANGED <<nextRT, issued>>
     ELSE IF user = {}
     THEN Fail(ErrUserNotFound, TRUE) /\ deleteRefreshToken(refreshToken)
          /\ UNCHANGED <<nextRT, issued>>
     ELSE /\ nextRT < MaxRefreshTokens
          /\ nextRT' = nextRT + 1
          /\ rts' = rts \cup {[token |-> newRefreshToken, user_id |-> The(user).id,
                                expires_at |-> getRefreshTokenExpiry(now)]}
          /\ issued' = issued \cup {accessToken}
          /\ ReturnAtomic(Response("refresh", refreshToken, 200, NoError, newRefreshToken,
                                   {accessToken}, {toPublicUser(The(user))}, TRUE))
  /\ UNCHANGED <<variant, sched, regEnabled, now, users, nextUid, vts, nextVT,
                 expiredIssued>>

\* Every store call is synchronous and nothing is awaited: one step.
routerRefresh(refreshToken) ==
  LET storedToken == findRefreshToken(refreshToken)
      user == findUserById(The(storedToken).user_id)
      accessToken == generateAccessToken(The(user), now)
      newRefreshToken == generateRefreshToken
      Fail(error, found) ==
        ReturnAtomic(Response("refresh", refreshToken, 401, error, NoToken, {}, {}, found)) IN
  /\ variant = "server"
  /\ IF refreshToken = NoToken
     THEN Fail(ErrNoRefreshToken, FALSE) /\ UNCHANGED <<rts, nextRT, issued>>
     ELSE IF storedToken = {}
     THEN Fail(ErrInvalidRefreshToken, FALSE) /\ UNCHANGED <<rts, nextRT, issued>>
     ELSE IF The(storedToken).expires_at < now
     THEN Fail(ErrRefreshExpired, TRUE) /\ deleteRefreshToken(refreshToken)
          /\ UNCHANGED <<nextRT, issued>>
     ELSE IF user = {}
     THEN Fail(ErrUserNotFound, TRUE) /\ deleteRefreshToken(refreshToken)
          /\ UNCHANGED <<nextRT, issued>>
     ELSE /\ nextRT < MaxRefreshTokens
          /\ nextRT' = nextRT + 1
          /\ rts' = {r \in rts : r.token # refreshToken}
                     \cup {[token |-> newRefreshToken, user_id |-> The(user).id,
                            expires_at |-> getRefreshTokenExpiry(now)]}
          /\ issued' = issued \cup {accessToken}
          /\ ReturnAtomic(Response("refresh", refreshToken, 200, NoError, newRefreshToken,
                                   {accessToken}, {toPublicUser(The(user))}, TRUE))
  /\ UNCHANGED <<variant, sched, regEnabled, now, users, nextUid, vts, nextVT,
                 expiredIssued>>

\* --------------------------------------------- server: POST /auth/logout
routerLogout(hdr, refreshToken) ==
  LET auth == requireAuth(hdr) IN
  /\ variant = "server"
  /\ IF ~auth.pass
     THEN /\ ReturnAtomic(Rejection("logout", refreshToken, auth))
          /\ rts' = rts
     ELSE /\ IF refreshToken # NoToken THEN deleteRefreshToken(refreshToken) ELSE rts' = rts
          /\ ReturnAtomic(Response("logout", refreshToken, 200, NoError, ClearedCookie, {}, {},
                                   findRefreshToken(refreshToken) # {}))
  /\ UNCHANGED <<variant, sched, regEnabled, now, users, nextUid, nextRT, vts, nextVT,
                 issued, expiredIssued>>

\* ------------------------------------------------- server: GET /auth/me
routerMe(hdr) ==
  LET auth == requireAuth(hdr)
      user == findUserById(The(auth.user).userId) IN
  /\ variant = "server"
  /\ IF ~auth.pass THEN ReturnAtomic(Rejection("me", hdr, auth))
     ELSE IF user = {}
     THEN ReturnAtomic(Response("me", hdr, 404, ErrNotFound, NoToken, {}, {}, FALSE))
     ELSE ReturnAtomic(Response("me", hdr, 200, NoError, NoToken, {},
                                {toPublicUser(u) : u \in user}, TRUE))
  /\ UNCHANGED <<variant, sched, regEnabled, now, users, nextUid, rts, nextRT, vts, nextVT,
                 issued, expiredIssued>>

\* ------------------------------------------ server: DELETE /auth/users/id
routerDeleteUser(hdr, userId) ==
  LET auth == requireAuth(hdr)
      role == requireRole({"admin"}, auth.user) IN
  /\ variant = "server"
  /\ IF ~auth.pass
     THEN ReturnAtomic(Rejection("deleteUser", userId, auth)) /\ UNCHANGED <<users, rts>>
     ELSE IF ~role.pass
     THEN ReturnAtomic(Rejection("deleteUser", userId, role)) /\ UNCHANGED <<users, rts>>
     ELSE IF The(auth.user).userId = userId
     THEN /\ ReturnAtomic(Response("deleteUser", userId, 400, ErrSelfDelete, NoToken, {}, {}, FALSE))
          /\ UNCHANGED <<users, rts>>
     ELSE /\ deleteUser(userId)
          /\ IF findUserById(userId) # {}
             THEN ReturnAtomic(Response("deleteUser", userId, 200, NoError, NoToken, {}, {}, TRUE))
             ELSE ReturnAtomic(Response("deleteUser", userId, 404, ErrNotFound, NoToken, {}, {}, FALSE))
  /\ UNCHANGED <<variant, sched, regEnabled, now, nextUid, nextRT, vts, nextVT, issued,
                 expiredIssued>>

\* ------------------------------------- server: PUT /auth/users/id/role
\* The role update without the comparison of req.user.userId with the id.
routerUpdateRoleOfSelf(hdr, userId, role) ==
  LET auth == requireAuth(hdr)
      admin == requireRole({"admin"}, auth.user)
      arg == [id |-> userId, role |-> role]
      Fail(status, error) ==
        ReturnAtomic(Response("updateRole", arg, status, error, NoToken, {}, {}, FALSE)) IN
  /\ variant = "server"
  /\ IF ~auth.pass THEN ReturnAtomic(Rejection("updateRole", arg, auth)) /\ users' = users
     ELSE IF ~admin.pass
     THEN ReturnAtomic(Rejection("updateRole", arg, admin)) /\ users' = users
     ELSE IF role \notin Roles THEN Fail(400, ErrInvalidRole) /\ users' = users
     ELSE IF findUserById(userId) = {} THEN Fail(404, ErrNotFound) /\ users' = users
     ELSE /\ updateUserRole(userId, role)
          /\ ReturnAtomic(Response("updateRole", arg, 200, NoError, NoToken, {},
                                   {toPublicUser([u EXCEPT !.role = role]) :
                                      u \in findUserById(userId)}, TRUE))
  /\ UNCHANGED <<variant, sched, regEnabled, now, nextUid, rts, nextRT, vts, nextVT,
                 issued, expiredIssued>>

routerUpdateRole(hdr, userId, role) ==
  LET auth == requireAuth(hdr)
      admin == requireRole({"admin"}, auth.user)
      arg == [id |-> userId, role |-> role]
      Fail(status, error) ==
        ReturnAtomic(Response("updateRole", arg, status, error, NoToken, {}, {}, FALSE)) IN
  /\ variant = "server"
  /\ IF ~auth.pass THEN ReturnAtomic(Rejection("updateRole", arg, auth)) /\ users' = users
     ELSE IF ~admin.pass
     THEN ReturnAtomic(Rejection("updateRole", arg, admin)) /\ users' = users
     ELSE IF role \notin Roles THEN Fail(400, ErrInvalidRole) /\ users' = users
     ELSE IF The(auth.user).userId = userId THEN Fail(400, ErrOwnRole) /\ users' = users
     ELSE IF findUserById(userId) = {} THEN Fail(404, ErrNotFound) /\ users' = users
     ELSE /\ updateUserRole(userId, role)
          /\ ReturnAtomic(Response("updateRole", arg, 200, NoError, NoToken, {},
                                   {toPublicUser([u EXCEPT !.role = role]) :
                                      u \in findUserById(userId)}, TRUE))
  /\ UNCHANGED <<variant, sched, regEnabled, now, nextUid, rts, nextRT, vts, nextVT,
                 issued, expiredIssued>>

\* ------------------------------------- server: PUT /auth/users/:id/name
routerUpdateName(hdr, userId, name) ==
  LET auth == requireAuth(hdr)
      admin == requireRole({"admin"}, auth.user)
      arg == [id |-> userId, name |-> name]
      Fail(status, error) ==
        ReturnAtomic(Response("updateName", arg, status, error, NoToken, {}, {}, FALSE)) IN
  /\ variant = "server"
  /\ IF ~auth.pass THEN ReturnAtomic(Rejection("updateName", arg, auth)) /\ users' = users
     ELSE IF ~admin.pass
     THEN ReturnAtomic(Rejection("updateName", arg, admin)) /\ users' = users
     ELSE IF name = "" \/ trim(name) = "" THEN Fail(400, ErrNameRequired) /\ users' = users
     ELSE IF findUserById(userId) = {} THEN Fail(404, ErrNotFound) /\ users' = users
     ELSE /\ updateUserName(userId, trim(name))
          /\ ReturnAtomic(Response("updateName", arg, 200, NoError, NoToken, {},
                                   {toPublicUser([u EXCEPT !.name = trim(name)]) :
                                      u \in findUserById(userId)}, TRUE))
  /\ UNCHANGED <<variant, sched, regEnabled, now, nextUid, rts, nextRT, vts, nextVT,
                 issued, expiredIssued>>

\* ------------------------------------------- cleanup, run at any moment
\* DELETE ... WHERE expires_at <= now: a sweep that takes the rows that
\* expire at this very moment as well.
deleteExpiredOrDue(table) == {r \in table : ~(r.expires_at <= now)}

\* DELETE ... WHERE expires_at < CURRENT_TIMESTAMP.
deleteExpired(table) == {r \in table : ~(r.expires_at < now)}

\* DELETE ... WHERE expires_at < datetime('now') of the sqlite store.  The
\* column holds toISOString() texts ('2026-01-05T10:00:00.000Z') and
\* datetime('now') is '2026-01-05 10:00:00': the texts differ at the 'T', so
\* the statement takes the rows of an earlier day only, some of the expired
\* rows.  The possible tables after the statement:
deleteExpiredByDay(table) ==
  {table \ older : older \in SUBSET {r \in table : r.expires_at < now}}

\* cleanupExpiredTokens called by a timer or a job, while requests may be
\* waiting for a store call or a hash.
cleanupExpiredTokensJob ==
  /\ \E r \in rts : r.expires_at <= now
  /\ IF variant = "serverless"
     THEN rts' = deleteExpired(rts)
     ELSE rts' \in deleteExpiredByDay(rts)
  /\ UNCHANGED <<variant, sched, regEnabled, now, users, nextUid, nextRT, vts, nextVT,
                 issued, expiredIssued, pc, loc, lastRet, rotated, mailed, client>>

cleanupExpiredVerificationTokens ==
  /\ \E v \in vts : v.expires_at <= now
  /\ IF variant = "serverless"
     THEN vts' = deleteExpired(vts)
     ELSE vts' \in deleteExpiredByDay(vts)
  /\ UNCHANGED <<variant, sched, regEnabled, now, users, nextUid, rts, nextRT, nextVT,
                 issued, expiredIssued, pc, loc, lastRet, rotated, mailed, client>>

\* ------------------------------------- server: hourly cleanupExpiredTokens
\* A tick is longer than a day, so the comparison of the stored ISO string
\* with datetime('now') orders rows as the clock does.
cleanupExpiredTokens ==
  /\ variant = "server"
  /\ \E r \in rts : r.expires_at < now
  /\ rts' = {r \in rts : ~(r.expires_at < now)}
  /\ ReturnAtomic(Response("cleanup", 0, 0, NoError, NoToken, {}, {}, FALSE))
  /\ UNCHANGED <<variant, sched, regEnabled, now, users, nextUid, nextRT, vts, nextVT,
                 issued, expiredIssued>>

\* ------------------------------------------------------ the users table
\* /^[^\s@]+@[^\s@]+\.[^\s@]+$/ on an address given as its characters.
emailRegexTest(email) ==
  LET n == Len(email)
      ats == {i \in 1..n : email[i] = "@"} IN
  /\ \A i \in 1..n : email[i] # " "
  /\ Cardinality(ats) = 1
  /\ The(ats) > 1
  /\ \E d \in (The(ats) + 2)..(n - 1) : email[d] = "."

\* A parameter the caller left out.
Undefined == -1

\* createUserFails for a users table without the UNIQUE constraint on email.
createUserFailsWithoutUnique(email, emailVerified) ==
  variant = "server" /\ emailVerified = Undefined

\* INSERT INTO users: email is UNIQUE, so the insert throws when a row has
\* the address.  The long-running variant binds the named parameter
\* @emailVerified and throws when the caller left it out; the serverless
\* variant inserts emailVerified || 0.
createUserFails(email, emailVerified) ==
  \/ findUserByEmail(email) # {}
  \/ variant = "server" /\ emailVerified = Undefined

\* createUser leaving email_verified at the column default.
createUserUnverified(email, passwordHash, name, role, emailVerified) ==
  /\ users' = users \cup
       {[id |-> nextUid, email |-> email, password_hash |-> passwordHash,
         name |-> name, role |-> role, email_verified |-> 0]}
  /\ nextUid' = nextUid + 1

createUser(email, passwordHash, name, role, emailVerified) ==
  /\ users' = users \cup
       {[id |-> nextUid, email |-> email, password_hash |-> passwordHash,
         name |-> name, role |-> role,
         email_verified |-> IF emailVerified = Undefined THEN 0 ELSE emailVerified]}
  /\ nextUid' = nextUid + 1

\* The row createUser returns.
createdUser == The({u \in users' : u.id = nextUid})

getUserCount == Cardinality(users)

\* --------------------------------------- the email_verification_tokens table
\* crypto.randomBytes(32): a value that no earlier call produced.
generateVerificationToken == nextVT + 1

deleteVerificationTokensByEmail(email) == vts' = {v \in vts : v.email # email}

insertVerificationToken(body, token, expiresAt) ==
  vts' = vts \cup
    {[token |-> token, email |-> body.email, name |-> body.name,
      password_hash |-> hashPassword(body.password), expires_at |-> expiresAt]}

\* The long-running variant runs both statements without yielding.
createVerificationToken(body, token, expiresAt) ==
  vts' = {v \in vts : v.email # body.email} \cup
    {[token |-> token, email |-> body.email, name |-> body.name,
      password_hash |-> hashPassword(body.password), expires_at |-> expiresAt]}

deleteVerificationToken(token) == vts' = {v \in vts : v.token # token}

\* ---------------------------------- serverless: POST /auth/register-public
\* registerPublicCheck consulting the pending registrations as well.
registerPublicCheckPending(body) ==
  IF ~regEnabled THEN [status |-> 403, error |-> ErrRegistrationDisabled]
  ELSE IF body.email = <<>> \/ body.password = "" \/ body.name = ""
  THEN [status |-> 400, error |-> ErrRegisterFields]
  ELSE IF ~emailRegexTest(body.email) THEN [status |-> 400, error |-> ErrEmailFormat]
  ELSE IF Len(body.password) < MinPasswordLen
  THEN [status |-> 400, error |-> ErrPasswordLength]
  ELSE IF findUserByEmail(body.email) # {} \/ \E v \in vts : v.email = body.email
  THEN [status |-> 409, error |-> ErrDuplicateEmail]
  ELSE [status |-> 0, error |-> NoError]

\* The checks before the first store write: the status and error of the
\* rejection, 0 when the request passes.
registerPublicCheck(body) ==
  IF ~regEnabled THEN [status |-> 403, error |-> ErrRegistrationDisabled]
  ELSE IF body.email = <<>> \/ body.password = "" \/ body.name = ""
  THEN [status |-> 400, error |-> ErrRegisterFields]
  ELSE IF ~emailRegexTest(body.email) THEN [status |-> 400, error |-> ErrEmailFormat]
  ELSE IF Len(body.password) < MinPasswordLen
  THEN [status |-> 400, error |-> ErrPasswordLength]
  ELSE IF findUserByEmail(body.email) # {}
  THEN [status |-> 409, error |-> ErrDuplicateEmail]
  ELSE [status |-> 0, error |-> NoError]

handleRegisterPublic(p, body) ==
  LET chk == registerPublicCheck(body) IN
  /\ variant = "serverless"
  /\ CanStart(p)
  /\ IF chk.status # 0
     THEN /\ Return(p, Response("registerPublic", body, chk.status, chk.error, NoToken, {}, {}, FALSE))
          /\ nextVT' = nextVT
     ELSE /\ nextVT < MaxVerifTokens
          /\ nextVT' = nextVT + 1
          /\ Await(p, "register_delete",
                   [IdleLoc EXCEPT !.op = "registerPublic", !.arg = body, !.body = {body},
                                   !.tok = generateVerificationToken,
                                   !.preVts = Snapshot(vts), !.preUsers = Snapshot(users)])
  /\ UNCHANGED <<variant, sched, regEnabled, now, users, nextUid, rts, nextRT, vts,
                 issued, expiredIssued>>

\* createVerificationToken, first statement: DELETE ... WHERE email.
handleRegisterDelete(p) ==
  /\ pc[p] = "register_delete"
  /\ deleteVerificationTokensByEmail(loc[p].arg.email)
  /\ Await(p, "register_insert", [loc[p] EXCEPT !.exp = getVerificationTokenExpiry(now)])
  /\ UNCHANGED <<variant, sched, regEnabled, now, users, nextUid, rts, nextRT,
                 nextVT, issued, expiredIssued>>

\* createVerificationToken, second statement: INSERT.
handleRegisterInsert(p) ==
  /\ pc[p] = "register_insert"
  /\ insertVerificationToken(loc[p].arg, loc[p].tok, loc[p].exp)
  /\ Await(p, "register_mail", loc[p])
  /\ UNCHANGED <<variant, sched, regEnabled, now, users, nextUid, rts, nextRT,
                 nextVT, issued, expiredIssued>>

\* handleRegisterMail taking the token back when the mail was not sent.
handleRegisterMailRevoking(p, emailSent) ==
  /\ pc[p] \in {"register_mail", "router_register_mail"}
  /\ IF emailSent
     THEN /\ Return(p, Response("registerPublic", loc[p].arg, 201, NoError, NoToken, {}, {}, FALSE))
          /\ vts' = vts
     ELSE /\ Return(p, Response("registerPublic", loc[p].arg, 500, ErrMailFailed, NoToken, {}, {}, FALSE))
          /\ vts' = {v \in vts : v.email # loc[p].arg.email}
  /\ UNCHANGED <<variant, sched, regEnabled, now, users, nextUid, rts, nextRT,
                 nextVT, issued, expiredIssued>>

\* sendVerificationEmail resolves to emailSent.
handleRegisterMail(p, emailSent) ==
  /\ pc[p] \in {"register_mail", "router_register_mail"}
  /\ IF emailSent
     THEN Return(p, Response("registerPublic", loc[p].arg, 201, NoError, NoToken, {}, {}, FALSE))
     ELSE Return(p, Response("registerPublic", loc[p].arg, 500, ErrMailFailed, NoToken, {}, {}, FALSE))
  /\ UNCHANGED <<variant, sched, regEnabled, now, users, nextUid, rts, nextRT, vts,
                 nextVT, issued, expiredIssued>>

\* ------------------------------------ serverless: GET /auth/verify-email
handleVerifyEmail(p, token) ==
  LET verificationData == findVerificationToken(token) IN
  /\ variant = "serverless"
  /\ CanStart(p)
  /\ IF token = NoToken
     THEN Return(p, Response("verifyEmail", token, 400, ErrVerifyMissing, NoToken, {}, {}, FALSE))
     ELSE IF verificationData = {}
     THEN Return(p, Response("verifyEmail", token, 400, ErrVerifyInvalid, NoToken, {}, {}, FALSE))
     ELSE Await(p, "verify_found",
                [IdleLoc EXCEPT !.op = "verifyEmail", !.arg = token,
                                !.row = verificationData, !.found = TRUE,
                                !.preVts = Snapshot(vts), !.preUsers = Snapshot(users)])
  /\ UNCHANGED <<variant, sched, regEnabled, now, users, nextUid, rts, nextRT, vts,
                 nextVT, issued, expiredIssued>>

\* The expiry check, then either the delete of the expired token or the
\* lookup of a user with the token's address.
handleVerifyFound(p) ==
  LET verificationData == The(loc[p].row)
      existingUser == findUserByEmail(verificationData.email) IN
  /\ pc[p] = "verify_found"
  /\ IF verificationData.expires_at < now
     THEN /\ deleteVerificationToken(loc[p].arg)
          /\ Return(p, Response("verifyEmail", loc[p].arg, 400, ErrVerifyExpired, NoToken, {}, {}, TRUE))
     ELSE /\ vts' = vts
          /\ Await(p, IF existingUser # {} THEN "verify_duplicate" ELSE "verify_create",
                   loc[p])
  /\ UNCHANGED <<variant, sched, regEnabled, now, users, nextUid, rts, nextRT,
                 nextVT, issued, expiredIssued>>

\* handleVerifyDuplicate without the delete of the verification token.
handleVerifyDuplicateKeepingToken(p) ==
  /\ pc[p] = "verify_duplicate"
  /\ vts' = vts
  /\ Return(p, Response("verifyEmail", loc[p].arg, 409, ErrDuplicateEmail, NoToken, {}, {}, TRUE))
  /\ UNCHANGED <<variant, sched, regEnabled, now, users, nextUid, rts, nextRT,
                 nextVT, issued, expiredIssued>>

handleVerifyDuplicate(p) ==
  /\ pc[p] = "verify_duplicate"
  /\ deleteVerificationToken(loc[p].arg)
  /\ Return(p, Response("verifyEmail", loc[p].arg, 409, ErrDuplicateEmail, NoToken, {}, {}, TRUE))
  /\ UNCHANGED <<variant, sched, regEnabled, now, users, nextUid, rts, nextRT,
                 nextVT, issued, expiredIssued>>

handleVerifyCreate(p) ==
  LET verificationData == The(loc[p].row) IN
  /\ pc[p] = "verify_create"
  /\ IF createUserFails(verificationData.email, 1)
     THEN /\ Return(p, Response("verifyEmail", loc[p].arg, 500, ErrInternal, NoToken, {}, {}, TRUE))
          /\ UNCHANGED <<users, nextUid>>
     ELSE /\ nextUid <= MaxUsers
          /\ createUser(verificationData.email, verificationData.password_hash,
                        verificationData.name, "viewer", 1)
          /\ Await(p, "verify_delete", [loc[p] EXCEPT !.user = {createdUser}])
  /\ UNCHANGED <<variant, sched, regEnabled, now, rts, nextRT, vts, nextVT,
                 issued, expiredIssued>>

\* handleVerifyDelete without the delete of the verification token.
handleVerifyDeleteKeepingToken(p) ==
  /\ pc[p] = "verify_delete"
  /\ vts' = vts
  /\ Return(p, Response("verifyEmail", loc[p].arg, 200, NoError, NoToken, {},
                        {toPublicUser(The(loc[p].user))}, TRUE))
  /\ UNCHANGED <<variant, sched, regEnabled, now, users, nextUid, rts, nextRT,
                 nextVT, issued, expiredIssued>>

handleVerifyDelete(p) ==
  /\ pc[p] = "verify_delete"
  /\ deleteVerificationToken(loc[p].arg)
  /\ Return(p, Response("verifyEmail", loc[p].arg, 200, NoError, NoToken, {},
                        {toPublicUser(The(loc[p].user))}, TRUE))
  /\ UNCHANGED <<variant, sched, regEnabled, now, users, nextUid, rts, nextRT,
                 nextVT, issued, expiredIssued>>

\* -------------------------------------- serverless: POST /auth/register
\* The role of the body, 'viewer' when the body names none.
roleOrDefault(body) == IF body.role = "" THEN "viewer" ELSE body.role

handleRegister(p, hdr, body) ==
  LET chk == adminCheck(hdr)
      Fail(status, error) ==
        Return(p, Response("register", body, status, error, NoToken, {}, {}, FALSE)) IN
  /\ variant = "serverless"
  /\ CanStart(p)
  /\ IF chk.status # 0 THEN Fail(chk.status, chk.error)
     ELSE IF body.email = <<>> \/ body.password = "" \/ body.name = ""
     THEN Fail(400, ErrRegisterFields)
     ELSE IF findUserByEmail(body.email) # {} THEN Fail(409, ErrDuplicateEmail)
     ELSE IF roleOrDefault(body) \notin Roles THEN Fail(400, ErrInvalidRole)
     ELSE Await(p, "register_create",
                [IdleLoc EXCEPT !.op = "register", !.arg = body, !.hdr = hdr,
                                !.body = {body}, !.preUsers = Snapshot(users)])
  /\ UNCHANGED <<variant, sched, regEnabled, now, users, nextUid, rts, nextRT, vts,
                 nextVT, issued, expiredIssued>>

handleRegisterCreate(p) ==
  LET body == loc[p].arg IN
  /\ pc[p] = "register_create"
  /\ IF createUserFails(body.email, 1)
     THEN /\ Return(p, Response("register", body, 500, ErrInternal, NoToken, {}, {}, FALSE))
          /\ UNCHANGED <<users, nextUid>>
     ELSE /\ nextUid <= MaxUsers
          /\ createUser(body.email, hashPassword(body.password), body.name,
                        roleOrDefault(body), 1)
          /\ Return(p, Response("register", body, 201, NoError, NoToken, {},
                                {toPublicUser(createdUser)}, FALSE))
  /\ UNCHANGED <<variant, sched, regEnabled, now, rts, nextRT, vts, nextVT,
                 issued, expiredIssued>>

\* ------------------------------------------ serverless: POST /api/init
\* The init handler creating the admin when adminName is missing.
handleInitWithoutName(p, secretOk, body) ==
  /\ variant = "serverless"
  /\ CanStart(p)
  /\ IF ~secretOk
     THEN Return(p, Response("init", body, 403, ErrInitSecret, NoToken, {}, {}, FALSE))
     ELSE IF getUserCount = 0 /\ body.email # <<>> /\ body.password # ""
     THEN Await(p, "init_create",
                [IdleLoc EXCEPT !.op = "init", !.arg = body, !.body = {body},
                                !.preUsers = Snapshot(users)])
     ELSE Return(p, Response("init", body, 200, NoError, NoToken, {}, {}, FALSE))
  /\ UNCHANGED <<variant, sched, regEnabled, now, users, nextUid, rts, nextRT, vts,
                 nextVT, issued, expiredIssued>>

handleInit(p, secretOk, body) ==
  /\ variant = "serverless"
  /\ CanStart(p)
  /\ IF ~secretOk
     THEN Return(p, Response("init", body, 403, ErrInitSecret, NoToken, {}, {}, FALSE))
     ELSE IF getUserCount = 0
             /\ body.email # <<>> /\ body.password # "" /\ body.name # ""
     THEN Await(p, "init_create",
                [IdleLoc EXCEPT !.op = "init", !.arg = body, !.body = {body},
                                !.preUsers = Snapshot(users)])
     ELSE Return(p, Response("init", body, 200, NoError, NoToken, {}, {}, FALSE))
  /\ UNCHANGED <<variant, sched, regEnabled, now, users, nextUid, rts, nextRT, vts,
                 nextVT, issued, expiredIssued>>

handleInitCreate(p) ==
  LET body == loc[p].arg IN
  /\ pc[p] = "init_create"
  /\ IF createUserFails(body.email, 1)
     THEN /\ Return(p, Response("init", body, 500, ErrInitFailed, NoToken, {}, {}, FALSE))
          /\ UNCHANGED <<users, nextUid>>
     ELSE /\ nextUid <= MaxUsers
          /\ createUser(body.email, hashPassword(body.password), body.name, "admin", 1)
          /\ Return(p, Response("init", body, 200, NoError, NoToken, {}, {}, TRUE))
  /\ UNCHANGED <<variant, sched, regEnabled, now, rts, nextRT, vts, nextVT,
                 issued, expiredIssued>>

\* The init handler that takes additionalUsers, called with the right
\* secret, without admin fields and with one additional user: the user is
\* created when all four fields are set and no row has the address.
handleInitAdditional(p, user) ==
  /\ variant = "serverless"
  /\ CanStart(p)
  /\ IF user.email # <<>> /\ user.password # "" /\ user.name # "" /\ user.role # ""
        /\ findUserByEmail(user.email) = {}
     THEN Await(p, "init_additional",
                [IdleLoc EXCEPT !.op = "initUsers", !.arg = user, !.body = {user},
                                !.preUsers = Snapshot(users)])
     ELSE Return(p, Response("initUsers", user, 200, NoError, NoToken, {}, {}, FALSE))
  /\ UNCHANGED <<variant, sched, regEnabled, now, users, nextUid, rts, nextRT, vts,
                 nextVT, issued, expiredIssued>>

handleInitAdditionalCreate(p) ==
  LET user == loc[p].arg IN
  /\ pc[p] = "init_additional"
  /\ IF createUserFails(user.email, 1)
     THEN /\ Return(p, Response("initUsers", user, 500, ErrInitFailed, NoToken, {}, {}, FALSE))
          /\ UNCHANGED <<users, nextUid>>
     ELSE /\ nextUid <= MaxUsers
          /\ createUser(user.email, hashPassword(user.password), user.name, user.role, 1)
          /\ Return(p, Response("initUsers", user, 200, NoError, NoToken, {}, {}, TRUE))
  /\ UNCHANGED <<variant, sched, regEnabled, now, rts, nextRT, vts, nextVT,
                 issued, expiredIssued>>

\* --------------------------------------- server: createInitialAdmin at start
\* env.ADMIN_EMAIL, env.ADMIN_PASSWORD and env.ADMIN_NAME as configured, or
\* with one of them unset.
AdminEnv == [email |-> EmailA, password |-> "Secret123", name |-> "Admin"]
AdminEnvs ==
  {AdminEnv, [AdminEnv EXCEPT !.name = ""], [AdminEnv EXCEPT !.password = ""],
   [AdminEnv EXCEPT !.email = <<>>]}

createInitialAdmin(p, env) ==
  /\ variant = "server"
  /\ CanStart(p)
  /\ IF getUserCount = 0 /\ env.email # <<>> /\ env.password # ""
     THEN Await(p, "bootstrap_create",
                [IdleLoc EXCEPT !.op = "bootstrap", !.arg = env,
                                !.preUsers = Snapshot(users)])
     ELSE Return(p, Response("bootstrap", env, 0, NoError, NoToken, {}, {}, FALSE))
  /\ UNCHANGED <<variant, sched, regEnabled, now, users, nextUid, rts, nextRT, vts,
                 nextVT, issued, expiredIssued>>

\* createUser after hashPassword resolved; when the insert throws, the
\* promise of startServer rejects.
createInitialAdminCreate(p) ==
  LET env == loc[p].arg IN
  /\ pc[p] = "bootstrap_create"
  /\ IF createUserFails(env.email, 1)
     THEN /\ Return(p, Response("bootstrap", env, 500, ErrInternal, NoToken, {}, {}, FALSE))
          /\ UNCHANGED <<users, nextUid>>
     ELSE /\ nextUid <= MaxUsers
          /\ createUser(env.email, hashPassword(env.password),
                        IF env.name = "" THEN "Admin" ELSE env.name, "admin", 1)
          /\ Return(p, Response("bootstrap", env, 0, NoError, NoToken, {}, {}, TRUE))
  /\ UNCHANGED <<variant, sched, regEnabled, now, rts, nextRT, vts, nextVT,
                 issued, expiredIssued>>

\* ------------------------------------------- server: POST /auth/register
routerRegister(p, hdr, body) ==
  LET auth == requireAuth(hdr)
      role == requireRole({"admin"}, auth.user)
      Fail(status, error) ==
        Return(p, Response("register", body, status, error, NoToken, {}, {}, FALSE)) IN
  /\ variant = "server"
  /\ CanStart(p)
  /\ IF ~auth.pass THEN Return(p, Rejection("register", body, auth))
     ELSE IF ~role.pass THEN Return(p, Rejection("register", body, role))
     ELSE IF body.email = <<>> \/ body.password = "" \/ body.name = ""
     THEN Fail(400, ErrRegisterFields)
     ELSE IF findUserByEmail(body.email) # {} THEN Fail(409, ErrDuplicateEmail)
     ELSE IF roleOrDefault(body) \notin Roles THEN Fail(400, ErrInvalidRole)
     ELSE Await(p, "router_register_create",
                [IdleLoc EXCEPT !.op = "register", !.arg = body, !.hdr = hdr,
                                !.body = {body}, !.preUsers = Snapshot(users)])
  /\ UNCHANGED <<variant, sched, regEnabled, now, users, nextUid, rts, nextRT, vts,
                 nextVT, issued, expiredIssued>>

\* createUser({email, passwordHash, name, role}): no emailVerified.
routerRegisterCreate(p) ==
  LET body == loc[p].arg IN
  /\ pc[p] = "router_register_create"
  /\ IF createUserFails(body.email, Undefined)
     THEN /\ Return(p, Response("register", body, 500, ErrInternal, NoToken, {}, {}, FALSE))
          /\ UNCHANGED <<users, nextUid>>
     ELSE /\ nextUid <= MaxUsers
          /\ createUser(body.email, hashPassword(body.password), body.name,
                        roleOrDefault(body), Undefined)
          /\ Return(p, Response("register", body, 201, NoError, NoToken, {},
                                {toPublicUser(createdUser)}, FALSE))
  /\ UNCHANGED <<variant, sched, regEnabled, now, rts, nextRT, vts, nextVT,
                 issued, expiredIssued>>

\* ------------------------------------ server: POST /auth/register-public
routerRegisterPublic(p, body) ==
  LET chk == registerPublicCheck(body) IN
  /\ variant = "server"
  /\ CanStart(p)
  /\ IF chk.status # 0
     THEN /\ Return(p, Response("registerPublic", body, chk.status, chk.error, NoToken, {}, {}, FALSE))
          /\ nextVT' = nextVT
     ELSE /\ nextVT < MaxVerifTokens
          /\ nextVT' = nextVT + 1
          /\ Await(p, "router_register_token",
                   [IdleLoc EXCEPT !.op = "registerPublic", !.arg = body, !.body = {body},
                                   !.tok = generateVerificationToken,
                                   !.preVts = Snapshot(vts), !.preUsers = Snapshot(users)])
  /\ UNCHANGED <<variant, sched, regEnabled, now, users, nextUid, rts, nextRT, vts,
                 issued, expiredIssued>>

\* createVerificationToken after hashPassword resolved.
routerRegisterToken(p) ==
  /\ pc[p] = "router_register_token"
  /\ createVerificationToken(loc[p].arg, loc[p].tok, getVerificationTokenExpiry(now))
  /\ Await(p, "router_register_mail", loc[p])
  /\ UNCHANGED <<variant, sched, regEnabled, now, users, nextUid, rts, nextRT,
                 nextVT, issued, expiredIssued>>

\* --------------------------------------- server: GET /auth/verify-email
\* Every store call is synchronous and nothing is awaited: one step.
routerVerifyEmail(token) ==
  LET verificationData == findVerificationToken(token)
      v == The(verificationData)
      Fail(status, error, found) ==
        ReturnAtomic(Response("verifyEmail", token, status, error, NoToken, {}, {}, found)) IN
  /\ variant = "server"
  /\ IF token = NoToken
     THEN Fail(400, ErrVerifyMissing, FALSE) /\ UNCHANGED <<users, nextUid, vts>>
     ELSE IF verificationData = {}
     THEN Fail(400, ErrVerifyInvalid, FALSE) /\ UNCHANGED <<users, nextUid, vts>>
     ELSE IF v.expires_at < now
     THEN Fail(400, ErrVerifyExpired, TRUE) /\ deleteVerificationToken(token)
          /\ UNCHANGED <<users, nextUid>>
     ELSE IF findUserByEmail(v.email) # {}
     THEN Fail(409, ErrDuplicateEmail, TRUE) /\ deleteVerificationToken(token)
          /\ UNCHANGED <<users, nextUid>>
     ELSE /\ nextUid <= MaxUsers
          /\ createUser(v.email, v.password_hash, v.name, "viewer", 1)
          /\ deleteVerificationToken(token)
          /\ ReturnAtomic(Response("verifyEmail", token, 200, NoError, NoToken, {},
                                   {toPublicUser(createdUser)}, TRUE))
  /\ UNCHANGED <<variant, sched, regEnabled, now, rts, nextRT, nextVT, issued,
                 expiredIssued>>

\* ------------------------------------------------ frontend: the API client
\* The requests the application makes through api, each in one of the
\* states new, sent, queued (in failedQueue), refreshing (its handler waits
\* for the refresh call), resolved or rejected.
MaxRequests == 3
Requests == 1..MaxRequests

\* Access tokens get the names 1..MaxTokenNames in turn; 0 is the token of
\* the login.  A name is used again after MaxTokenNames refreshes.
MaxTokenNames == 3

ErrRefreshFailed == "Refresh failed"

\* A request not yet made: _retry is unset; queued records that the request
\* has been in failedQueue.
NewRequest == [st |-> "new", retry |-> FALSE, tok |-> {}, err |-> "", queued |-> FALSE]

\* isRefreshing = false, failedQueue = [], and localStorage holds the access
\* token of the login.
ClientStart ==
  [isRefreshing |-> FALSE, failedQueue |-> <<>>, accessToken |-> {0}, lastToken |-> 0,
   req |-> [r \in Requests |-> NewRequest]]

\* api(config): the request interceptor attaches the token of localStorage.
apiRequest(r) ==
  /\ client.req[r].st = "new"
  /\ client' = [client EXCEPT !.req[r] = [@ EXCEPT !.st = "sent", !.tok = client.accessToken]]
  /\ UNCHANGED serverVars

\* (response) => response
responseFulfilled(r) ==
  /\ client.req[r].st = "sent"
  /\ client' = [client EXCEPT !.req[r] = [@ EXCEPT !.st = "resolved"]]
  /\ UNCHANGED serverVars

ResponseErrors == {401, 500}

\* The response interceptor that starts a refresh for every 401, whether or
\* not one is in progress.
responseRejectedUnguarded(r, status) ==
  LET originalRequest == client.req[r] IN
  /\ originalRequest.st = "sent"
  /\ IF status = 401 /\ ~originalRequest.retry
     THEN client' = [client EXCEPT !.isRefreshing = TRUE,
                                   !.req[r] = [@ EXCEPT !.st = "refreshing", !.retry = TRUE]]
     ELSE client' = [client EXCEPT !.req[r] = [@ EXCEPT !.st = "rejected",
                                                        !.err = IF status = 401 THEN "401" ELSE "500"]]
  /\ UNCHANGED serverVars

\* async (error) => ...: up to the await of the refresh call, or to the end.
responseRejected(r, status) ==
  LET originalRequest == client.req[r] IN
  /\ originalRequest.st = "sent"
  /\ IF status = 401 /\ ~originalRequest.retry
     THEN IF client.isRefreshing
          THEN client' = [client EXCEPT !.failedQueue = Append(@, r),
                                        !.req[r] = [@ EXCEPT !.st = "queued", !.queued = TRUE]]
          ELSE client' = [client EXCEPT !.isRefreshing = TRUE,
                                        !.req[r] = [@ EXCEPT !.st = "refreshing", !.retry = TRUE]]
     ELSE client' = [client EXCEPT !.req[r] = [@ EXCEPT !.st = "rejected",
                                                        !.err = IF status = 401 THEN "401" ELSE "500"]]
  /\ UNCHANGED serverVars

InQueue(q) == \E i \in 1..Len(client.failedQueue) : client.failedQueue[i] = q

\* processQueue(error, token): the requests after every promise of
\* failedQueue was rejected with error, or resolved with api(originalRequest)
\* and the header set to token.
processQueue(error, token) ==
  [q \in Requests |->
     IF InQueue(q)
     THEN IF error # ""
          THEN [client.req[q] EXCEPT !.st = "rejected", !.err = error]
          ELSE [client.req[q] EXCEPT !.st = "sent", !.tok = {token}]
     ELSE client.req[q]]

\* The handler of r after fetch('/api/auth/refresh') and response.json()
\* settled: ok when the response was ok and carried the body, else the
\* catch branch; finally isRefreshing = false.
refreshSettled(r, ok) ==
  LET newToken == (client.lastToken % MaxTokenNames) + 1 IN
  /\ client.req[r].st = "refreshing"
  /\ IF ok
     THEN client' =
            [client EXCEPT
               !.accessToken = {newToken},
               !.lastToken = newToken,
               !.req = [processQueue("", newToken) EXCEPT
                          ![r] = [client.req[r] EXCEPT !.st = "sent", !.tok = {newToken}]],
               !.failedQueue = <<>>,
               !.isRefreshing = FALSE]
     ELSE client' =
            [client EXCEPT
               !.accessToken = {},
               !.req = [processQueue(ErrRefreshFailed, 0) EXCEPT
                          ![r] = [client.req[r] EXCEPT !.st = "rejected",
                                                       !.err = ErrRefreshFailed]],
               !.failedQueue = <<>>,
               !.isRefreshing = FALSE]
  /\ UNCHANGED serverVars

\* The application makes its next request once one has settled.
nextRequest(r) ==
  /\ client.req[r].st \in {"resolved", "rejected"}
  /\ client' = [client EXCEPT !.req[r] = NewRequest]
  /\ UNCHANGED serverVars

\* ------------------------------------------------ sessions: specification
Admin1 ==
  [id |-> 1, email |-> EmailA, password_hash |-> hashPassword("Secret123"),
   name |-> "Admin", role |-> "admin", email_verified |-> 1]
Viewer2 ==
  [id |-> 2, email |-> EmailB, password_hash |-> hashPassword("longenough1"),
   name |-> "Uli", role |-> "viewer", email_verified |-> 1]

InitCommon ==
  /\ now = 0
  /\ vts = {}
  /\ nextVT = 0
  /\ pc = [p \in Procs |-> "idle"]
  /\ loc = [p \in Procs |-> IdleLoc]
  /\ lastRet = Response("none", 0, 0, NoError, NoToken, {}, {}, FALSE)
  /\ rotated = {}
  /\ mailed = {}
  /\ client = ClientStart

EmailC == <<"c", "@", "x", ".", "t">>
LoginBodies ==
  {[email |-> EmailA, password |-> "Secret123"],
   [email |-> EmailB, password |-> "longenough1"],
   [email |-> EmailA, password |-> "wrong"],
   [email |-> EmailC, password |-> "Secret123"],
   [email |-> EmailA, password |-> ""]}
Cookies == {NoToken, UnknownToken} \cup (1..nextRT)
RoleInputs == {"manager", "owner"}
UserIds == 1..(nextUid - 1)

\* Requests answered one after the other, in either variant.  The store
\* holds an admin and a viewer, as after bootstrap and one registration.
InitSequential ==
  /\ InitCommon
  /\ regEnabled = TRUE
  /\ variant \in {"serverless", "server"}
  /\ sched = "sequential"
  /\ users = {Admin1, Viewer2}
  /\ nextUid = 3
  /\ rts = {}
  /\ nextRT = 0
  /\ issued = {}
  /\ expiredIssued = FALSE

NextSequential ==
  \/ Tick
  \/ \E p \in Procs, b \in LoginBodies : handleLogin(p, b.email, b.password)
  \/ \E p \in Procs : handleLoginSave(p)
  \/ \E p \in Procs, t \in Cookies : handleRefresh(p, t)
  \/ \E p \in Procs : handleRefreshFound(p)
  \/ \E p \in Procs : handleRefreshRotate(p)
  \/ \E p \in Procs : handleRefreshSave(p)
  \/ \E p \in Procs, t \in Cookies : handleLogout(p, t)
  \/ \E p \in Procs, b \in LoginBodies : routerLogin(p, b.email, b.password)
  \/ \E p \in Procs : routerLoginVerified(p)
  \/ \E t \in Cookies : routerRefresh(t)
  \/ \E h \in Headers, t \in Cookies : routerLogout(h, t)
  \/ cleanupExpiredTokens

SpecSequential == InitSequential /\ [][NextSequential]_vars

\* Logins and refreshes answered one after the other, while the admin
\* changes roles.
ValidLogins == {b \in LoginBodies : b.password \in Passwords}

NextRotation ==
  \/ Tick
  \/ \E p \in Procs, b \in ValidLogins : handleLogin(p, b.email, b.password)
  \/ \E p \in Procs : handleLoginSave(p)
  \/ \E p \in Procs, t \in 1..nextRT : handleRefresh(p, t)
  \/ \E p \in Procs : handleRefreshFound(p)
  \/ \E p \in Procs : handleRefreshRotate(p)
  \/ \E p \in Procs : handleRefreshSave(p)
  \/ \E p \in Procs, h \in Headers, id \in UserIds, r \in RoleInputs :
       handleUpdateRole(p, h, id, r)
  \/ \E p \in Procs : handleUpdateRoleRead(p)
  \/ \E p \in Procs, b \in ValidLogins : routerLogin(p, b.email, b.password)
  \/ \E p \in Procs : routerLoginVerified(p)
  \/ \E t \in 1..nextRT : routerRefresh(t)
  \/ \E h \in Headers, id \in UserIds, r \in RoleInputs : routerUpdateRole(h, id, r)

SpecRotation == InitSequential /\ [][NextRotation]_vars

\* Serverless requests in flight together.  Admin and viewer have logged in
\* at time 0 and hold an access token each; the admin has logged out again,
\* the viewer's refresh token is in the store.
InitSession ==
  /\ InitCommon
  /\ regEnabled = TRUE
  /\ variant = "serverless"
  /\ sched = "interleaved"
  /\ users = {Admin1, Viewer2}
  /\ nextUid = 3
  /\ rts = {[token |-> 1, user_id |-> 2, expires_at |-> getRefreshTokenExpiry(0)]}
  /\ nextRT = 1
  /\ issued = {generateAccessToken(Admin1, 0), generateAccessToken(Viewer2, 0)}
  /\ expiredIssued = FALSE

NextSession ==
  \/ Tick
  \/ \E p \in Procs, t \in Cookies : handleRefresh(p, t)
  \/ \E p \in Procs : handleRefreshFound(p)
  \/ \E p \in Procs : handleRefreshOrphan(p)
  \/ \E p \in Procs : handleRefreshRotate(p)
  \/ \E p \in Procs : handleRefreshSave(p)
  \/ \E p \in Procs, t \in Cookies : handleLogout(p, t)
  \/ \E p \in Procs, h \in Headers, id \in UserIds : handleDeleteUser(p, h, id)
  \/ \E p \in Procs : handleDeleteUserRow(p)

SpecSession == InitSession /\ [][NextSession]_vars

\* User management answered one request after the other, in either
\* variant: deletions, role updates with any role in the body, and requests
\* for the own user.  Admin
\* and viewer have logged in at time 0; each holds an access token and a
\* refresh token.
RoleBodies == Roles \cup {"owner"}

InitUsers ==
  /\ InitCommon
  /\ regEnabled = TRUE
  /\ variant \in {"serverless", "server"}
  /\ sched = "sequential"
  /\ users = {Admin1, Viewer2}
  /\ nextUid = 3
  /\ rts = {[token |-> 1, user_id |-> 1, expires_at |-> getRefreshTokenExpiry(0)],
            [token |-> 2, user_id |-> 2, expires_at |-> getRefreshTokenExpiry(0)]}
  /\ nextRT = 2
  /\ issued = {generateAccessToken(Admin1, 0), generateAccessToken(Viewer2, 0)}
  /\ expiredIssued = FALSE

NextUsers ==
  \/ Tick
  \/ \E p \in Procs, h \in Headers, id \in UserIds : handleDeleteUser(p, h, id)
  \/ \E p \in Procs : handleDeleteUserRow(p)
  \/ \E p \in Procs, h \in Headers, id \in UserIds, r \in RoleBodies :
       handleUpdateRole(p, h, id, r)
  \/ \E p \in Procs : handleUpdateRoleRead(p)
  \/ \E p \in Procs, h \in Headers : handleMe(p, h)
  \/ \E p \in Procs : handleMeUser(p)
  \/ \E h \in Headers : routerMe(h)
  \/ \E h \in Headers, id \in UserIds : routerDeleteUser(h, id)
  \/ \E h \in Headers, id \in UserIds, r \in RoleBodies : routerUpdateRole(h, id, r)

SpecUsers == InitUsers /\ [][NextUsers]_vars

\* Two admins, the second one registered by the first with role admin; both
\* have logged in at time 0.  Delete, role update and me requests follow.
Admin2 == [Viewer2 EXCEPT !.role = "admin"]

InitAdmins ==
  /\ InitCommon
  /\ regEnabled = TRUE
  /\ variant \in {"serverless", "server"}
  /\ sched = "sequential"
  /\ users = {Admin1, Admin2}
  /\ nextUid = 3
  /\ rts = {[token |-> 1, user_id |-> 1, expires_at |-> getRefreshTokenExpiry(0)],
            [token |-> 2, user_id |-> 2, expires_at |-> getRefreshTokenExpiry(0)]}
  /\ nextRT = 2
  /\ issued = {generateAccessToken(Admin1, 0), generateAccessToken(Admin2, 0)}
  /\ expiredIssued = FALSE

SpecAdmins == InitAdmins /\ [][NextUsers]_vars

\* The middleware that requireRole(...roles) returns, in front of a handler:
\* it answers itself, or calls next, and the handler answers.
requireRoleMiddleware(roles, reqUser) ==
  LET m == requireRole(roles, reqUser)
      arg == [roles |-> roles, user |-> reqUser] IN
  /\ variant = "server"
  /\ IF m.pass
     THEN ReturnAtomic(Response("next", arg, 200, NoError, NoToken, {}, {}, FALSE))
     ELSE ReturnAtomic(Rejection("requireRole", arg, m))
  /\ UNCHANGED <<variant, sched, regEnabled, now, users, nextUid, rts, nextRT, vts, nextVT,
                 issued, expiredIssued>>

\* Requests to routes behind requireRole, with any list of roles and with
\* or without a payload attached.  The second user has any of the roles.
InitMiddleware ==
  /\ InitCommon
  /\ regEnabled = TRUE
  /\ variant = "server"
  /\ sched = "sequential"
  /\ \E r \in Roles : users = {Admin1, [Viewer2 EXCEPT !.role = r]}
  /\ nextUid = 3
  /\ rts = {}
  /\ nextRT = 0
  /\ issued = {generateAccessToken(u, 0) : u \in users}
  /\ expiredIssued = FALSE

NextMiddleware ==
  \E roles \in SUBSET Roles, reqUser \in {{}} \cup {{tok} : tok \in issued} :
    requireRoleMiddleware(roles, reqUser)

SpecMiddleware == InitMiddleware /\ [][NextMiddleware]_vars

\* Logins and refreshes of the viewer in flight while the admin deletes
\* users, in either variant; the long-running server yields only while a
\* login waits for verifyPassword.  Admin and viewer have logged in at
\* time 0, the viewer's refresh token is in the store.
InitDeletion ==
  /\ InitCommon
  /\ regEnabled = TRUE
  /\ variant \in {"serverless", "server"}
  /\ sched = "interleaved"
  /\ users = {Admin1, Viewer2}
  /\ nextUid = 3
  /\ rts = {[token |-> 1, user_id |-> 2, expires_at |-> getRefreshTokenExpiry(0)]}
  /\ nextRT = 1
  /\ issued = {generateAccessToken(Admin1, 0), generateAccessToken(Viewer2, 0)}
  /\ expiredIssued = FALSE

NextDeletion ==
  \/ \E p \in Procs, b \in {x \in ValidLogins : x.email = EmailB} :
       handleLogin(p, b.email, b.password)
  \/ \E p \in Procs : handleLoginSave(p)
  \/ \E p \in Procs, t \in 1..nextRT : handleRefresh(p, t)
  \/ \E p \in Procs : handleRefreshFound(p)
  \/ \E p \in Procs : handleRefreshOrphan(p)
  \/ \E p \in Procs : handleRefreshRotate(p)
  \/ \E p \in Procs : handleRefreshSave(p)
  \/ \E p \in Procs, h \in Headers, id \in UserIds : handleDeleteUser(p, h, id)
  \/ \E p \in Procs : handleDeleteUserRow(p)
  \/ \E p \in Procs, b \in {x \in ValidLogins : x.email = EmailB} :
       routerLogin(p, b.email, b.password)
  \/ \E p \in Procs : routerLoginVerified(p)
  \/ \E t \in 1..nextRT : routerRefresh(t)
  \/ \E h \in Headers, id \in UserIds : routerDeleteUser(h, id)

SpecDeletion == InitDeletion /\ [][NextDeletion]_vars

\* Logins, refreshes, logouts and verifications answered one after the
\* other, with the two cleanups running at any moment, also while a request
\* waits.  The viewer holds a refresh token, and a registration for a
\* third address is pending.
InitCleanup ==
  /\ now = 0
  /\ pc = [p \in Procs |-> "idle"]
  /\ loc = [p \in Procs |-> IdleLoc]
  /\ lastRet = Response("none", 0, 0, NoError, NoToken, {}, {}, FALSE)
  /\ rotated = {}
  /\ mailed = {1}
  /\ client = ClientStart
  /\ regEnabled = TRUE
  /\ variant \in {"serverless", "server"}
  /\ sched = "sequential"
  /\ users = {Admin1, Viewer2}
  /\ nextUid = 3
  /\ rts = {[token |-> 1, user_id |-> 2, expires_at |-> getRefreshTokenExpiry(0)]}
  /\ nextRT = 1
  /\ vts = {[email |-> EmailC, token |-> 1, name |-> "Uli",
             password_hash |-> hashPassword("Secret123"),
             expires_at |-> getVerificationTokenExpiry(0)]}
  /\ nextVT = 1
  /\ issued = {}
  /\ expiredIssued = FALSE

NextCleanup ==
  \/ Tick
  \/ cleanupExpiredTokensJob
  \/ cleanupExpiredVerificationTokens
  \/ \E p \in Procs, b \in ValidLogins : handleLogin(p, b.email, b.password)
  \/ \E p \in Procs : handleLoginSave(p)
  \/ \E p \in Procs, t \in 1..nextRT : handleRefresh(p, t)
  \/ \E p \in Procs : handleRefreshFound(p)
  \/ \E p \in Procs : handleRefreshRotate(p)
  \/ \E p \in Procs : handleRefreshSave(p)
  \/ \E p \in Procs, t \in 1..nextRT : handleLogout(p, t)
  \/ \E p \in Procs, t \in 1..nextVT : handleVerifyEmail(p, t)
  \/ \E p \in Procs : handleVerifyFound(p)
  \/ \E p \in Procs : handleVerifyCreate(p)
  \/ \E p \in Procs : handleVerifyDelete(p)
  \/ \E p \in Procs, b \in ValidLogins : routerLogin(p, b.email, b.password)
  \/ \E p \in Procs : routerLoginVerified(p)
  \/ \E t \in 1..nextRT : routerRefresh(t)
  \/ \E h \in Headers, t \in 1..nextRT : routerLogout(h, t)
  \/ \E t \in 1..nextVT : routerVerifyEmail(t)

SpecCleanup == InitCleanup /\ [][NextCleanup]_vars

\* The API client of one browser tab: its requests are answered with
\* success, 401 or another error, its refresh calls succeed or fail, in any
\* order; the application goes on making requests.
InitClient ==
  /\ InitCommon
  /\ regEnabled = TRUE
  /\ variant = "serverless"
  /\ sched = "sequential"
  /\ users = {Admin1, Viewer2}
  /\ nextUid = 3
  /\ rts = {[token |-> 1, user_id |-> 2, expires_at |-> getRefreshTokenExpiry(0)]}
  /\ nextRT = 1
  /\ issued = {generateAccessToken(Viewer2, 0)}
  /\ expiredIssued = FALSE

NextClient ==
  \/ \E r \in Requests : apiRequest(r)
  \/ \E r \in Requests : responseFulfilled(r)
  \/ \E r \in Requests, status \in ResponseErrors : responseRejected(r, status)
  \/ \E r \in Requests, ok \in BOOLEAN : refreshSettled(r, ok)
  \/ \E r \in Requests : nextRequest(r)

SpecClient == InitClient /\ [][NextClient]_vars

\* Every request that was sent gets its response or its network error, and
\* every refresh call settles.
ClientFairness ==
  \A r \in Requests :
    /\ WF_vars(responseFulfilled(r) \/ \E status \in ResponseErrors : responseRejected(r, status))
    /\ WF_vars(\E ok \in BOOLEAN : refreshSettled(r, ok))

SpecClientFair == SpecClient /\ ClientFairness

\* ------------------------------------------------- properties: the session
\* A step in which a response is sent.
Responded == lastRet'.seq # lastRet.seq

\* Under the sequential schedule: the tables as they were when the request
\* arrived that the current step answers.
PreRts == IF AllIdle THEN rts ELSE loc[1].preRts
PreUsers == IF AllIdle THEN users ELSE loc[1].preUsers
PreVts == IF AllIdle THEN vts ELSE loc[1].preVts

\* C1: a refresh that presents a stored, unexpired token whose owner exists
\* succeeds, and a refresh that directly follows a successful refresh of the
\* same token is answered 401 with the unknown-token error and carries
\* neither an access token nor a refresh token cookie.
RefreshTwiceStep ==
  Responded /\ lastRet'.op = "refresh" =>
    /\ (\E r \in PreRts :
          /\ r.token = lastRet'.arg
          /\ r.expires_at >= now'
          /\ \E u \in PreUsers : u.id = r.user_id)
         => lastRet'.status = 200
    /\ lastRet'.after = "refresh" =>
         /\ lastRet'.status = 401
         /\ lastRet'.error = ErrInvalidRefreshToken
         /\ lastRet'.access = {}
         /\ lastRet'.cookie = NoToken
RefreshTwice == [][RefreshTwiceStep]_vars

\* The second of two refresh calls with one token has been answered.
RefreshTwiceWitness ==
  /\ lastRet.op = "refresh"
  /\ lastRet.after = "refresh"
  /\ lastRet.status = 401
  /\ lastRet.arg \in rotated

\* C2: when a refresh call that found its token in the store returns, with
\* whatever outcome, the token is not in the store.
RefreshConsumesTokenStep ==
  Responded /\ lastRet'.op = "refresh" /\ lastRet'.found =>
    \A r \in rts' : r.token # lastRet'.arg
RefreshConsumesToken == [][RefreshConsumesTokenStep]_vars

\* A refresh found its token, then found the owner deleted.
RefreshConsumesTokenWitness ==
  /\ lastRet.op = "refresh"
  /\ lastRet.found
  /\ lastRet.error = ErrUserNotFound
  /\ lastRet.arg \notin {r.token : r \in rts}

\* C3: of all refresh calls that present one token, at most one is answered
\* with success: no call succeeds with a token that an earlier call has
\* already been answered for with success.
OneRefreshPerTokenStep ==
  Responded /\ lastRet'.op = "refresh" /\ lastRet'.status = 200 =>
    lastRet'.arg \notin rotated
OneRefreshPerToken == [][OneRefreshPerTokenStep]_vars

\* C4: a successful refresh of token t leaves the store as it was, except
\* that t is gone and exactly one new token, different from t and owned by
\* t's owner, is added; the access token it returns carries the owner's
\* current id, email and role.
RefreshRotatesStep ==
  Responded /\ lastRet'.op = "refresh" /\ lastRet'.status = 200 =>
    \E old \in PreRts :
      /\ old.token = lastRet'.arg
      /\ lastRet'.cookie # old.token
      /\ lastRet'.cookie \notin {r.token : r \in PreRts}
      /\ \E new \in rts' :
           /\ new.token = lastRet'.cookie
           /\ new.user_id = old.user_id
           /\ rts' \ {new} = PreRts \ {old}
      /\ \E u \in users' :
           /\ u.id = old.user_id
           /\ Cardinality(lastRet'.access) = 1
           /\ \A tok \in lastRet'.access :
                tok.userId = u.id /\ tok.email = u.email /\ tok.role = u.role
RefreshRotates == [][RefreshRotatesStep]_vars

\* The token of a user whose role was changed after the login has been
\* rotated while another session's token is stored.
RefreshRotatesWitness ==
  /\ lastRet.op = "refresh"
  /\ lastRet.status = 200
  /\ \E tok \in lastRet.access : tok.userId = Viewer2.id /\ tok.role # Viewer2.role
  /\ \E r \in rts : r.token # lastRet.cookie

\* C5: a login whose address has no user and a login with a wrong password
\* are both answered 401 with the invalid-credentials error, set no cookie,
\* return no access token and leave the refresh token store as it was.
LoginFailureStep ==
  Responded /\ lastRet'.op = "login" =>
    LET body == lastRet'.arg IN
    (/\ body.email # <<>>
     /\ body.password # ""
     /\ \A u \in users :
          u.email # body.email \/ ~verifyPassword(body.password, u.password_hash))
      => /\ lastRet'.status = 401
         /\ lastRet'.error = ErrInvalidCredentials
         /\ lastRet'.cookie = NoToken
         /\ lastRet'.access = {}
         /\ rts' = PreRts
         /\ nextRT' = nextRT
         /\ users' = users
LoginFailure == [][LoginFailureStep]_vars

\* A login with a wrong password was rejected while a session is stored.
LoginFailureWitness ==
  /\ lastRet.op = "login"
  /\ lastRet.status = 401
  /\ \E u \in users : u.email = lastRet.arg.email
  /\ rts # {}

\* C6: every logout is answered with success and leaves its token out of
\* the store; a logout that repeats a logout changes nothing, and a refresh
\* with the token of the logout before it does not succeed.
LogoutStep ==
  Responded =>
    /\ lastRet'.op = "logout" =>
         /\ lastRet'.status = 200
         /\ \A r \in rts' : r.token # lastRet'.arg
         /\ lastRet'.after = "logout" => rts' = rts
    /\ lastRet'.op = "refresh" /\ lastRet'.after = "logout" =>
         lastRet'.status # 200
LogoutAlwaysSucceeds == [][LogoutStep]_vars

\* --------------------------------------------- registration: specification
RegisterPublicBodies ==
  {[email |-> EmailA, password |-> "longenough1", name |-> "Uli"],
   [email |-> EmailA, password |-> "Secret123", name |-> "Anna"],
   [email |-> EmailB, password |-> "longenough1", name |-> "Uli"],
   [email |-> EmailBad, password |-> "longenough1", name |-> "Uli"],
   [email |-> EmailA, password |-> "short", name |-> "Uli"]}

RegisterBodies ==
  {[email |-> EmailA, password |-> "Secret123", name |-> "Anna", role |-> "manager"],
   [email |-> EmailB, password |-> "Secret123", name |-> "Bert", role |-> ""],
   [email |-> EmailB, password |-> "Secret123", name |-> "Bert", role |-> "owner"]}

InitBodies ==
  {[email |-> EmailA, password |-> "Secret123", name |-> "Admin"],
   [email |-> EmailB, password |-> "Secret123", name |-> ""]}

VerifyTokens == {NoToken, UnknownToken} \cup (1..nextVT)

\* The store is either empty, or holds the admin, who has logged in.
RegistrationStores ==
  /\ InitCommon
  /\ variant \in {"serverless", "server"}
  /\ rts = {}
  /\ nextRT = 0
  /\ expiredIssued = FALSE
  /\ \/ users = {} /\ nextUid = 1 /\ issued = {}
     \/ /\ users = {[Admin1 EXCEPT !.email = EmailC]}
        /\ nextUid = 2
        /\ issued = {generateAccessToken([Admin1 EXCEPT !.email = EmailC], 0)}

\* The steps that continue a registration request already in flight.
ContinueRegistration ==
  \/ \E p \in Procs : handleRegisterDelete(p)
  \/ \E p \in Procs : handleRegisterInsert(p)
  \/ \E p \in Procs, sent \in BOOLEAN : handleRegisterMail(p, sent)
  \/ \E p \in Procs : handleVerifyFound(p)
  \/ \E p \in Procs : handleVerifyDuplicate(p)
  \/ \E p \in Procs : handleVerifyCreate(p)
  \/ \E p \in Procs : handleVerifyDelete(p)
  \/ \E p \in Procs : handleRegisterCreate(p)
  \/ \E p \in Procs : handleInitCreate(p)
  \/ \E p \in Procs : createInitialAdminCreate(p)
  \/ \E p \in Procs : routerRegisterCreate(p)
  \/ \E p \in Procs : routerRegisterToken(p)

\* Registration requests answered one after the other.
NextRegistrationSeq ==
  \/ Tick
  \/ ContinueRegistration
  \/ \E p \in Procs, b \in RegisterPublicBodies : handleRegisterPublic(p, b)
  \/ \E p \in Procs, t \in VerifyTokens : handleVerifyEmail(p, t)
  \/ \E p \in Procs, h \in Headers, b \in RegisterBodies : handleRegister(p, h, b)
  \/ \E p \in Procs, ok \in BOOLEAN, b \in InitBodies : handleInit(p, ok, b)
  \/ \E p \in Procs, env \in AdminEnvs : createInitialAdmin(p, env)
  \/ \E p \in Procs, h \in Headers, b \in RegisterBodies : routerRegister(p, h, b)
  \/ \E p \in Procs, b \in RegisterPublicBodies : routerRegisterPublic(p, b)
  \/ \E t \in VerifyTokens : routerVerifyEmail(t)

\* REGISTRATION_ENABLED is configured either way.
InitRegistrationSeq ==
  /\ RegistrationStores
  /\ sched = "sequential"
  /\ regEnabled \in BOOLEAN

SpecRegistrationSeq == InitRegistrationSeq /\ [][NextRegistrationSeq]_vars

\* Registration requests in flight together, all for the address EmailA.
SameEmailPublic == {b \in RegisterPublicBodies : b.email = EmailA /\ b.password # "short"}
SameEmailAdmin == {b \in RegisterBodies : b.email = EmailA}
SameEmailInit == {b \in InitBodies : b.email = EmailA}

NextRegistration ==
  \/ Tick
  \/ ContinueRegistration
  \/ \E p \in Procs, b \in SameEmailPublic : handleRegisterPublic(p, b)
  \/ \E p \in Procs, t \in 1..nextVT : handleVerifyEmail(p, t)
  \/ \E p \in Procs, h \in Headers, b \in SameEmailAdmin : handleRegister(p, h, b)
  \/ \E p \in Procs, b \in SameEmailInit : handleInit(p, TRUE, b)
  \/ \E p \in Procs : createInitialAdmin(p, AdminEnv)
  \/ \E p \in Procs, h \in Headers, b \in SameEmailAdmin : routerRegister(p, h, b)
  \/ \E p \in Procs, b \in SameEmailPublic : routerRegisterPublic(p, b)
  \/ \E t \in 1..nextVT : routerVerifyEmail(t)

InitRegistration ==
  /\ RegistrationStores
  /\ sched = "interleaved"
  /\ regEnabled = TRUE

SpecRegistration == InitRegistration /\ [][NextRegistration]_vars

\* Two bootstrap runs in flight together on an empty users table: two
\* calls of the init endpoint, or two server processes on one database file
\* starting up, with the same admin address or with two addresses.
BootstrapEnvs == {AdminEnv, [AdminEnv EXCEPT !.email = EmailB, !.name = ""]}

InitBootstrap ==
  /\ InitCommon
  /\ variant \in {"serverless", "server"}
  /\ sched = "interleaved"
  /\ regEnabled \in BOOLEAN
  /\ users = {}
  /\ nextUid = 1
  /\ rts = {}
  /\ nextRT = 0
  /\ issued = {}
  /\ expiredIssued = FALSE

NextBootstrap ==
  \/ Tick
  \/ \E p \in Procs, b \in BootstrapEnvs : handleInit(p, TRUE, [b EXCEPT !.name = "Admin"])
  \/ \E p \in Procs : handleInitCreate(p)
  \/ \E p \in Procs, env \in BootstrapEnvs : createInitialAdmin(p, env)
  \/ \E p \in Procs : createInitialAdminCreate(p)

SpecBootstrap == InitBootstrap /\ [][NextBootstrap]_vars

\* Every request of a caller who holds no access token of an admin and does
\* not know an admin's password, answered one after the other, on a table
\* that is empty or holds an admin and a viewer who has logged in.  The
\* init endpoint and the bootstrap run as well.
PrivilegeBodies == {b \in RegisterPublicBodies : b.name = "Uli" /\ b.email # EmailA}
PrivilegeRegister == {b \in RegisterBodies : b.role = "manager"}
NonAdminLogins ==
  {b \in LoginBodies : \A u \in users : u.email = b.email => u.role # "admin"}

InitPrivilege ==
  /\ InitCommon
  /\ regEnabled = TRUE
  /\ variant \in {"serverless", "server"}
  /\ sched = "sequential"
  /\ expiredIssued = FALSE
  /\ \/ users = {} /\ nextUid = 1 /\ rts = {} /\ nextRT = 0 /\ issued = {}
     \/ /\ users = {Admin1, Viewer2}
        /\ nextUid = 3
        /\ rts = {[token |-> 1, user_id |-> 2, expires_at |-> getRefreshTokenExpiry(0)]}
        /\ nextRT = 1
        /\ issued = {generateAccessToken(Viewer2, 0)}

NextPrivilege ==
  \/ \E p \in Procs, b \in NonAdminLogins : handleLogin(p, b.email, b.password)
  \/ \E p \in Procs : handleLoginSave(p)
  \/ \E p \in Procs, t \in 1..nextRT : handleRefresh(p, t)
  \/ \E p \in Procs : handleRefreshFound(p)
  \/ \E p \in Procs : handleRefreshRotate(p)
  \/ \E p \in Procs : handleRefreshSave(p)
  \/ \E p \in Procs, t \in 1..nextRT : handleLogout(p, t)
  \/ \E p \in Procs, h \in Headers : handleMe(p, h)
  \/ \E p \in Procs : handleMeUser(p)
  \/ \E p \in Procs, b \in PrivilegeBodies : handleRegisterPublic(p, b)
  \/ \E p \in Procs : handleRegisterDelete(p)
  \/ \E p \in Procs : handleRegisterInsert(p)
  \/ \E p \in Procs, sent \in BOOLEAN : handleRegisterMail(p, sent)
  \/ \E p \in Procs, t \in 1..nextVT : handleVerifyEmail(p, t)
  \/ \E p \in Procs : handleVerifyFound(p)
  \/ \E p \in Procs : handleVerifyCreate(p)
  \/ \E p \in Procs : handleVerifyDelete(p)
  \/ \E p \in Procs, h \in Headers, b \in PrivilegeRegister : handleRegister(p, h, b)
  \/ \E p \in Procs, h \in Headers, id \in UserIds : handleDeleteUser(p, h, id)
  \/ \E p \in Procs, h \in Headers, id \in UserIds : handleUpdateRole(p, h, id, "admin")
  \/ \E p \in Procs, h \in Headers, id \in UserIds, n \in NameBodies :
       handleUpdateName(p, h, id, n)
  \/ \E p \in Procs, b \in InitBodies : handleInit(p, TRUE, b)
  \/ \E p \in Procs : handleInitCreate(p)
  \/ \E p \in Procs, b \in NonAdminLogins : routerLogin(p, b.email, b.password)
  \/ \E p \in Procs : routerLoginVerified(p)
  \/ \E t \in 1..nextRT : routerRefresh(t)
  \/ \E h \in Headers, t \in 1..nextRT : routerLogout(h, t)
  \/ \E h \in Headers : routerMe(h)
  \/ \E p \in Procs, b \in PrivilegeBodies : routerRegisterPublic(p, b)
  \/ \E p \in Procs : routerRegisterToken(p)
  \/ \E t \in 1..nextVT : routerVerifyEmail(t)
  \/ \E p \in Procs, h \in Headers, b \in PrivilegeRegister : routerRegister(p, h, b)
  \/ \E h \in Headers, id \in UserIds : routerDeleteUser(h, id)
  \/ \E h \in Headers, id \in UserIds : routerUpdateRole(h, id, "admin")
  \/ \E h \in Headers, id \in UserIds, n \in NameBodies : routerUpdateName(h, id, n)
  \/ \E p \in Procs : createInitialAdmin(p, AdminEnv)
  \/ \E p \in Procs : createInitialAdminCreate(p)

SpecPrivilege == InitPrivilege /\ [][NextPrivilege]_vars

\* The requests that give a user its role, answered one after the other:
\* bootstrap and init, additional users of init, registration by an admin
\* and role update.
NextRoles ==
  \/ \E p \in Procs, b \in InitBodies : handleInit(p, TRUE, b)
  \/ \E p \in Procs : handleInitCreate(p)
  \/ \E p \in Procs, b \in RegisterBodies : handleInitAdditional(p, b)
  \/ \E p \in Procs : handleInitAdditionalCreate(p)
  \/ \E p \in Procs, h \in Headers, b \in RegisterBodies : handleRegister(p, h, b)
  \/ \E p \in Procs : handleRegisterCreate(p)
  \/ \E p \in Procs, h \in Headers, id \in UserIds, r \in RoleBodies :
       handleUpdateRole(p, h, id, r)
  \/ \E p \in Procs : handleUpdateRoleRead(p)
  \/ \E p \in Procs : createInitialAdmin(p, AdminEnv)
  \/ \E p \in Procs : createInitialAdminCreate(p)
  \/ \E p \in Procs, h \in Headers, b \in RegisterBodies : routerRegister(p, h, b)
  \/ \E p \in Procs : routerRegisterCreate(p)
  \/ \E h \in Headers, id \in UserIds, r \in RoleBodies : routerUpdateRole(h, id, r)

SpecRoles == InitRegistrationSeq /\ [][NextRoles]_vars

\* -------------------------------------------- properties: the registration
\* C7: no two rows of the users table have the same email.
UniqueEmail == \A u1 \in users, u2 \in users : u1.email = u2.email => u1 = u2

\* A verification reached the insert after another request had created a
\* user with the token's address, and the insert was refused.
UniqueEmailWitness ==
  /\ lastRet.op = "verifyEmail"
  /\ lastRet.status = 500
  /\ \E v \in vts : v.token = lastRet.arg /\ \E u \in users : u.email = v.email

\* C8: no two rows of the email_verification_tokens table have the same
\* email.
OneTokenPerEmail == \A v1 \in vts, v2 \in vts : v1.email = v2.email => v1 = v2

\* C9: a verification that presents a stored, unexpired token whose address
\* has no user succeeds and creates the user, and a verification that
\* directly follows a successful verification with the same token is
\* answered with the token-not-found error and creates nothing.
VerifyTwiceStep ==
  Responded /\ lastRet'.op = "verifyEmail" =>
    /\ \A v \in PreVts :
         (/\ v.token = lastRet'.arg
          /\ v.expires_at >= now'
          /\ \A u \in PreUsers : u.email # v.email)
           => /\ lastRet'.status = 200
              /\ \E u \in users' \ PreUsers : u.email = v.email
    /\ lastRet'.after = "verifyEmail" =>
         /\ lastRet'.status = 400
         /\ lastRet'.error = ErrVerifyInvalid
         /\ users' = PreUsers
         /\ nextUid' = nextUid
VerifyTwice == [][VerifyTwiceStep]_vars

\* The second of two verifications with one token has been answered.
VerifyTwiceWitness ==
  /\ lastRet.op = "verifyEmail"
  /\ lastRet.after = "verifyEmail"
  /\ lastRet.status = 400
  /\ users # {}

\* C10: a successful verification adds exactly one user, with the email,
\* name and password hash of the token, the role viewer and email_verified
\* set; it deletes the token and nothing else, and it issues no access token
\* and no refresh token.
VerifyCreatesStep ==
  Responded /\ lastRet'.op = "verifyEmail" /\ lastRet'.status = 200 =>
    \E v \in PreVts :
      /\ v.token = lastRet'.arg
      /\ vts' = PreVts \ {v}
      /\ \E u \in users' :
           /\ u \notin PreUsers
           /\ users' = PreUsers \cup {u}
           /\ u.id \notin {w.id : w \in PreUsers}
           /\ u.email = v.email
           /\ u.name = v.name
           /\ u.password_hash = v.password_hash
           /\ u.role = "viewer"
           /\ u.email_verified = 1
           /\ lastRet'.user = {toPublicUser(u)}
      /\ lastRet'.access = {}
      /\ lastRet'.cookie = NoToken
      /\ rts' = rts
      /\ nextRT' = nextRT
      /\ issued' = issued
VerifyCreates == [][VerifyCreatesStep]_vars

\* A verification succeeded while the admin and another token are stored.
VerifyCreatesWitness ==
  /\ lastRet.op = "verifyEmail"
  /\ lastRet.status = 200
  /\ \E u \in users : u.role = "viewer" /\ lastRet.user = {toPublicUser(u)}
  /\ \E u \in users : u.role = "admin"
  /\ vts # {}

\* C11: a self-registration that is rejected (registration disabled, a field
\* missing, ill-formed address, short password, or a user with the address
\* exists) is answered in the step that receives it, without a write to
\* email_verification_tokens and without a call of sendVerificationEmail; a
\* request that passes these checks is not rejected, whether or not a token
\* for the address is pending, and replaces the pending tokens by its own.
RegisterRejectedStep ==
  Responded /\ lastRet'.op = "registerPublic" =>
    LET body == lastRet'.arg
        complete == body.email # <<>> /\ body.password # "" /\ body.name # ""
        wellFormed ==
          emailRegexTest(body.email) /\ Len(body.password) >= MinPasswordLen
        taken == \E u \in PreUsers : u.email = body.email IN
    /\ (~regEnabled \/ ~complete \/ ~wellFormed \/ taken) =>
         /\ lastRet'.status \in {400, 403, 409}
         /\ ~regEnabled => lastRet'.status = 403
         /\ (regEnabled /\ complete /\ wellFormed) => lastRet'.status = 409
         /\ AllIdle
         /\ UNCHANGED <<vts, nextVT, mailed, users>>
    /\ (regEnabled /\ complete /\ wellFormed /\ ~taken) =>
         /\ lastRet'.status \in {201, 500}
         /\ \E v \in vts' :
              /\ v.email = body.email
              /\ v.token \notin {w.token : w \in PreVts}
              /\ v.token \in mailed'
              /\ vts' = {w \in PreVts : w.email # body.email} \cup {v}
RegisterRejected == [][RegisterRejectedStep]_vars

\* A self-registration was rejected for an address that an admin had
\* registered, while a token for that address is pending.
RegisterRejectedWitness ==
  /\ lastRet.op = "registerPublic"
  /\ lastRet.status = 409
  /\ \E v \in vts : v.email = lastRet.arg.email
  /\ \E u \in users : u.email = lastRet.arg.email /\ u.role = "manager"

\* C12: an admin's registration request with a complete body, an unused
\* address and a valid role is answered 201, and every registration answered
\* 201 has added exactly one user, with the address, name, password and role
\* of the body (viewer when it names none) and email_verified set, and
\* carries that user without the password hash.
RegisterAdminStep ==
  Responded /\ lastRet'.op = "register" =>
    LET body == lastRet'.arg
        authorized == lastRet'.status \notin {401, 403}
        valid ==
          /\ body.email # <<>> /\ body.password # "" /\ body.name # ""
          /\ \A u \in PreUsers : u.email # body.email
          /\ roleOrDefault(body) \in Roles IN
    /\ authorized /\ valid => lastRet'.status = 201
    /\ lastRet'.status = 201 =>
         \E u \in users' :
           /\ u \notin PreUsers
           /\ users' = PreUsers \cup {u}
           /\ u.email = body.email
           /\ u.name = body.name
           /\ u.password_hash = hashPassword(body.password)
           /\ u.role = roleOrDefault(body)
           /\ u.email_verified = 1
           /\ lastRet'.user = {toPublicUser(u)}
           /\ "password_hash" \notin DOMAIN toPublicUser(u)
RegisterAdminCreates == [][RegisterAdminStep]_vars

\* ---------------------------------------------- properties: authorization
\* C13: a change of the users table leaves every issued, unexpired access
\* token as it is: the token verifies, and its payload, the role claim
\* included, is what was signed.  Access tokens are issued by login and
\* refresh responses alone, each with the role its user has at that moment,
\* so a token with the new role stems from a login or refresh answered
\* after the change.
RoleChangeStep ==
  /\ users' # users =>
       /\ issued' = issued
       /\ \A tok \in issued :
            /\ verifyAccessToken(Bearer(tok), now').ok
            /\ verifyAccessToken(Bearer(tok), now)' = verifyAccessToken(Bearer(tok), now)
            /\ requireAuth(Bearer(tok))' = [Pass EXCEPT !.user = {tok}]
            /\ adminCheck(Bearer(tok))' = adminCheck(Bearer(tok))
  /\ \A tok \in issued' \ issued :
       /\ Responded
       /\ lastRet'.op \in {"login", "refresh"}
       /\ lastRet'.access = {tok}
       /\ \E u \in users' : u.id = tok.userId /\ u.role = tok.role
RoleChangeKeepsTokens == [][RoleChangeStep]_vars

\* A role was changed while its user holds an unexpired access token that
\* carries the old role.
RoleChangeKeepsTokensWitness ==
  /\ lastRet.op = "updateRole"
  /\ lastRet.status = 200
  /\ \E tok \in issued :
       /\ tok.userId = lastRet.arg.id
       /\ tok.role # lastRet.arg.role
       /\ \E u \in users : u.id = tok.userId /\ u.role = lastRet.arg.role

\* C14: a deletion or a role update whose access token names the user it
\* targets is answered with a rejection in the step that receives it,
\* whatever role the body carries, and changes neither the users table nor
\* the refresh tokens.
SelfTargeted(h, id) == \E tok \in h.payload : tok.userId = id
SelfRequest(h, id) ==
  \/ \E p \in Procs : handleDeleteUser(p, h, id)
  \/ routerDeleteUser(h, id)
  \/ \E r \in RoleBodies :
       \/ \E p \in Procs : handleUpdateRole(p, h, id, r)
       \/ routerUpdateRole(h, id, r)
SelfRequestStep ==
  \A h \in Headers, id \in UserIds :
    SelfTargeted(h, id) /\ SelfRequest(h, id) =>
      /\ Responded
      /\ lastRet'.op \in {"deleteUser", "updateRole"}
      /\ lastRet'.status \in {400, 401, 403}
      /\ UNCHANGED <<users, rts>>
SelfRequestRejected == [][SelfRequestStep]_vars

\* An admin who holds a refresh token got the answer that the own role
\* cannot be changed, to a body with a valid role.
SelfRequestRejectedWitness ==
  /\ lastRet.op = "updateRole"
  /\ lastRet.error = ErrOwnRole
  /\ lastRet.arg.role = "viewer"
  /\ \E tok \in issued : tok.userId = lastRet.arg.id /\ tok.role = "admin"
  /\ \E u \in users : u.id = lastRet.arg.id /\ u.role = "admin"
  /\ \E r \in rts : r.user_id = lastRet.arg.id

\* C15: the middleware of requireRole(...roles) answers 401 when the request
\* has no payload attached and 403 when the payload's role is not among
\* roles; it calls next, so that the handler runs, exactly when the role is
\* among roles.  A viewer behind requireRole('admin') gets 403.
RequireRoleStep ==
  Responded =>
    LET roles == lastRet'.arg.roles
        reqUser == lastRet'.arg.user
        allowed == \E tok \in reqUser : tok.role \in roles IN
    /\ lastRet'.op \in {"requireRole", "next"}
    /\ lastRet'.op = "next" <=> allowed
    /\ reqUser = {} =>
         lastRet'.status = 401 /\ lastRet'.error = ErrAuthRequired
    /\ reqUser # {} /\ ~allowed =>
         lastRet'.status = 403 /\ lastRet'.error = ErrForbiddenAction
    /\ requireRole(roles, reqUser).pass <=> allowed
    /\ (roles = {"admin"} /\ \E tok \in reqUser : tok.role = "viewer") =>
         lastRet'.op = "requireRole" /\ lastRet'.status = 403
RequireRoleDecides == [][RequireRoleStep]_vars

\* A viewer was refused behind requireRole('admin').
RequireRoleDecidesWitness ==
  /\ lastRet.op = "requireRole"
  /\ lastRet.status = 403
  /\ lastRet.arg.roles = {"admin"}
  /\ \E tok \in lastRet.arg.user : tok.role = "viewer"

\* C16: a request for the own user that presents a signed access token
\* past its expiry is answered 401 with the code TOKEN_EXPIRED, and no
\* request without a token or with a token that fails verification for
\* another reason is answered with that code.
ExpiredToken(h) ==
  h.scheme = "Bearer" /\ h.signed /\ \E tok \in h.payload : now >= tok.exp
ExpiredAnswerStep ==
  Responded /\ lastRet'.op = "me" =>
    /\ ExpiredToken(lastRet'.arg) =>
         lastRet'.status = 401 /\ lastRet'.code = "TOKEN_EXPIRED"
    /\ ~ExpiredToken(lastRet'.arg) => lastRet'.code # "TOKEN_EXPIRED"
ExpiredAnswer == [][ExpiredAnswerStep]_vars

\* A run of the bootstrap, at start or by the init endpoint with the right
\* secret, answered under the sequential schedule: it creates the admin when
\* no user exists and the configuration is complete, and changes nothing else.
BootstrapRun(complete(_)) ==
  Responded /\ lastRet'.op \in {"init", "bootstrap"} /\ lastRet'.status # 403 =>
    LET cfg == lastRet'.arg IN
    /\ UNCHANGED <<rts, vts>>
    /\ IF PreUsers = {} /\ cfg.email # <<>> /\ cfg.password # "" /\ complete(cfg)
       THEN /\ Cardinality(users') = 1
            /\ \E u \in users' :
                 /\ u.email = cfg.email
                 /\ u.password_hash = hashPassword(cfg.password)
                 /\ u.role = "admin"
                 /\ u.email_verified = 1
       ELSE users' = PreUsers

\* C17, as claimed: the bootstrap creates the admin exactly when no user
\* exists and an admin email and password are configured.
NothingMore(cfg) == TRUE
NameAtInit(cfg) == lastRet'.op = "init" => cfg.name # ""
TokensHaveOwner == \A r \in rts : \E u \in users : u.id = r.user_id

\* The viewer was deleted while a login of the viewer was in flight; the
\* login came to store its refresh token after the deletion.
TokensHaveOwnerWitness ==
  /\ lastRet.op = "login"
  /\ lastRet.status = 500
  /\ lastRet.arg.email = EmailB
  /\ \A u \in users : u.id # 2

\* C19: every user in the store has a role that is one of admin, manager
\* and viewer, whichever request created or changed the row; and an admin's
\* registration that names no role creates a viewer.
RegisterDefaultStep ==
  Responded /\ lastRet'.op = "register" /\ lastRet'.status = 201 /\ lastRet'.arg.role = "" =>
    \E u \in users' \ users : u.role = "viewer"
UserRoles == [](\A u \in users : u.role \in Roles) /\ [][RegisterDefaultStep]_vars

\* C20: a successful login stores one refresh token more, a new one that
\* belongs to the user who logged in and is the cookie of the response, and
\* removes none.  A logout or a refresh removes at most the token it was
\* given: every other stored token, of the same user or of another, stays
\* in the store as it was, and a refresh adds the one token it answers with.
TokenFrameStep ==
  Responded =>
    /\ lastRet'.op = "login" /\ lastRet'.status = 200 =>
         \E r \in rts' :
           /\ rts' = PreRts \cup {r}
           /\ r.token \notin {s.token : s \in PreRts}
           /\ r.token = lastRet'.cookie
           /\ \E u \in users : u.email = lastRet'.arg.email /\ u.id = r.user_id
    /\ lastRet'.op \in CookieOps =>
         /\ {r \in PreRts : r.token # lastRet'.arg} \subseteq rts'
         /\ \A r \in rts' \ PreRts :
              /\ lastRet'.op = "refresh"
              /\ lastRet'.status = 200
              /\ r.token = lastRet'.cookie
         /\ \A r \in PreRts \ rts' : r.token = lastRet'.arg
TokenFrame == [][TokenFrameStep]_vars

\* A user with two sessions refreshed one of them: the token of the other
\* session is still stored, next to the one the refresh answered with.
TokenFrameWitness ==
  /\ lastRet.op = "refresh"
  /\ lastRet.status = 200
  /\ \E u \in lastRet.user : \E r \in rts :
       /\ r.user_id = u.id
       /\ r.token # lastRet.cookie
       /\ r.token # lastRet.arg
       /\ r.expires_at >= now

\* C21: a verification with a stored token that is expired when the handler
\* compares its expiry is answered 400 with the expired-token error; one
\* with a stored, unexpired token whose address belongs to a user is
\* answered 409 with the duplicate-address error.  Either answer comes with
\* the token deleted, and nothing else: no user is created, no user changes.
VerifyRejectedStep ==
  Responded /\ lastRet'.op = "verifyEmail" =>
    \A v \in PreVts :
      v.token = lastRet'.arg =>
        /\ (v.expires_at < now /\ (AllIdle \/ pc[1] = "verify_found")) =>
             lastRet'.status = 400 /\ lastRet'.error = ErrVerifyExpired
        /\ (v.expires_at >= now /\ \E u \in PreUsers : u.email = v.email) =>
             lastRet'.status = 409 /\ lastRet'.error = ErrDuplicateEmail
        /\ lastRet'.error = ErrVerifyExpired => v.expires_at < now
        /\ lastRet'.error \in {ErrVerifyExpired, ErrDuplicateEmail} =>
             /\ vts' = PreVts \ {v}
             /\ users' = PreUsers
             /\ nextUid' = nextUid
             /\ UNCHANGED <<rts, issued>>
VerifyRejected == [][VerifyRejectedStep]_vars

\* A verification was answered 409: its token is gone, the user who has the
\* address is the one an admin or the bootstrap created.
VerifyRejectedWitness ==
  /\ lastRet.op = "verifyEmail"
  /\ lastRet.status = 409
  /\ \A v \in vts : v.token # lastRet.arg
  /\ \E u \in users : u.role # "viewer"

\* C22: with verifications in flight together, a verification that reports
\* success has created the one user of the token's address, and no other
\* call presenting the token is about to report success; and when every
\* call has returned, a token that the last answered verification found in
\* the store is in the store no more, whichever way that call ended.
VerifyOnceStep ==
  Responded /\ lastRet'.op = "verifyEmail" /\ lastRet'.status = 200 =>
    /\ \E u \in users' :
         /\ lastRet'.user = {toPublicUser(u)}
         /\ \A w \in users' : w.email = u.email => w = u
    /\ \A q \in Procs : pc'[q] = "verify_delete" => loc'[q].arg # lastRet'.arg
VerifiedTokenGone ==
  (AllIdle /\ lastRet.op = "verifyEmail" /\ lastRet.found) =>
    \A v \in vts : v.token # lastRet.arg
VerifySingleUse == []VerifiedTokenGone /\ [][VerifyOnceStep]_vars

\* C23: a self-registration that is answered 500 because the mail was not
\* sent leaves the verification token it created in the store, with the
\* expiry it was created with;
\* the verification that follows it with this token, before the token
\* expires, is answered 200 and creates the user of the registration.
MailFailed(r) == r.op = "registerPublic" /\ r.status = 500 /\ r.error = ErrMailFailed
MailFailureStep ==
  Responded =>
    /\ MailFailed(lastRet') =>
         /\ \E v \in vts' :
              /\ v.email = lastRet'.arg.email
              /\ v.token \notin {w.token : w \in PreVts}
              /\ v.token \in mailed'
              /\ v.expires_at \in {getVerificationTokenExpiry(t) : t \in 0..now}
              /\ v.password_hash = hashPassword(lastRet'.arg.password)
         /\ users' = PreUsers
    /\ (MailFailed(lastRet) /\ lastRet'.op = "verifyEmail") =>
         \A v \in PreVts :
           (v.token = lastRet'.arg /\ v.email = lastRet.arg.email /\ v.expires_at >= now) =>
             /\ lastRet'.status = 200
             /\ \E u \in users' \ PreUsers :
                  /\ u.email = lastRet.arg.email
                  /\ u.name = lastRet.arg.name
                  /\ u.password_hash = hashPassword(lastRet.arg.password)
             /\ v \notin vts'
MailFailureKeepsToken == [][MailFailureStep]_vars

\* A registration was answered with the mail failure; its token is stored,
\* is not expired, and no user has its address.
MailFailureKeepsTokenWitness ==
  /\ MailFailed(lastRet)
  /\ AllIdle
  /\ \E v \in vts :
       /\ v.email = lastRet.arg.email
       /\ v.token \in mailed
       /\ v.expires_at >= now
  /\ \A u \in users : u.email # lastRet.arg.email

\* C24: with the cleanups running at any moment, a row leaves a token table
\* only when it is expired or when the request at work presented its token,
\* and a step that is neither of a request nor of the clock changes only
\* the token tables.  The requests are answered as without cleanup: a login with valid
\* credentials succeeds; a refresh succeeds when its token was stored on
\* arrival, is unexpired and has an owner, and only when it was stored; a
\* verification likewise; a serverless logout succeeds.
Presented == IF AllIdle THEN lastRet'.arg ELSE loc[1].arg
CleanupStep ==
  /\ \A r \in rts \ rts' : r.expires_at < now \/ r.token = Presented
  /\ \A v \in vts \ vts' : v.expires_at < now \/ v.token = Presented
  /\ (~Responded /\ pc' = pc /\ now' = now) =>
       UNCHANGED <<users, nextUid, nextRT, nextVT, issued, loc, rotated, mailed>>
  /\ Responded /\ lastRet'.op = "login" =>
       (lastRet'.status = 200 <=>
          \E u \in users : /\ u.email = lastRet'.arg.email
                           /\ verifyPassword(lastRet'.arg.password, u.password_hash))
  /\ Responded /\ lastRet'.op = "logout" /\ variant = "serverless" => lastRet'.status = 200
  /\ Responded /\ lastRet'.op = "refresh" =>
       /\ (\E r \in PreRts : r.token = lastRet'.arg /\ r.expires_at >= now') =>
            lastRet'.status = 200
       /\ lastRet'.status = 200 => \E r \in PreRts : r.token = lastRet'.arg
  /\ Responded /\ lastRet'.op = "verifyEmail" =>
       /\ (\E v \in PreVts : v.token = lastRet'.arg /\ v.expires_at >= now') =>
            lastRet'.status = 200
       /\ lastRet'.status = 200 => \E v \in PreVts : v.token = lastRet'.arg
CleanupIsSafe == [][CleanupStep]_vars

\* A refresh passed its expiry check and is about to rotate, and the token
\* it presented is no longer stored: a cleanup took it while the request was
\* waiting.
CleanupIsSafeWitness ==
  /\ pc[1] = "refresh_rotate"
  /\ loc[1].arg \in {r.token : r \in loc[1].preRts}
  /\ \A r \in rts : r.token # loc[1].arg

\* C25: no two users share an address, whatever bootstrap runs are in flight
\* together.  A run that passed the count check and reaches its insert
\* fails, creating nothing, when a row has its address by then, and
\* otherwise inserts its admin, also when the table is no longer empty.
UniqueEmails == \A u, w \in users : u.email = w.email => u = w
BootstrapInsertStep ==
  \A p \in Procs :
    (pc[p] \in {"init_create", "bootstrap_create"} /\ pc'[p] = "idle") =>
      IF \E u \in users : u.email = loc[p].arg.email
      THEN users' = users /\ lastRet'.status = 500
      ELSE /\ lastRet'.status \in {0, 200}
           /\ \E u \in users' \ users :
                /\ users' = users \cup {u}
                /\ u.email = loc[p].arg.email
                /\ u.role = "admin"
BootstrapRace == []UniqueEmails /\ [][BootstrapInsertStep]_vars

\* Both runs passed the count check with the same address; the first has
\* inserted its admin and the second is about to insert.
BootstrapRaceWitness ==
  /\ pc[2] \in {"init_create", "bootstrap_create"}
  /\ pc[1] = "idle"
  /\ lastRet.found
  /\ \E u \in users : u.email = loc[2].arg.email

\* C26: while no caller holds an admin's access token or password, no step
\* deletes a user or changes a user's role or name, and a user who is not a
\* viewer comes to exist only in a step of the init endpoint or of the
\* bootstrap.
ActingOp == IF AllIdle THEN lastRet'.op ELSE loc[1].op
PrivilegeStep ==
  /\ \A u \in users : \E w \in users' : w.id = u.id /\ w.role = u.role /\ w.name = u.name
  /\ \A w \in users' \ users : w.role # "viewer" => ActingOp \in {"init", "bootstrap"}
  /\ \A tok \in issued' : tok.role = "admin" => tok \in issued
NoPrivilegeWithoutAdmin == [][PrivilegeStep]_vars

\* A viewer holds an access token, an admin exists, and the viewer's request
\* to delete the admin was answered 403.
NoPrivilegeWithoutAdminWitness ==
  /\ lastRet.op = "deleteUser"
  /\ lastRet.status = 403
  /\ \E u \in users : u.role = "admin" /\ u.id = lastRet.arg
  /\ \E tok \in issued : tok.role = "viewer"

\* C27: a step from a state with an admin leads to a state with an admin,
\* whatever delete and role update requests are made, also with the access
\* token of an admin who has been demoted or deleted since it was issued.
HasAdmin == \E u \in users : u.role = "admin"
AdminRemains == [][HasAdmin => HasAdmin']_vars

\* C28: in the long-running server a refresh token is answered 200 at most
\* once, whatever requests are in flight: a refresh that presents a token
\* already rotated finds no row and is answered 401 with "invalid refresh
\* token".
ServerRefreshStep ==
  (Responded /\ variant = "server" /\ lastRet'.op = "refresh"
     /\ lastRet'.arg \in rotated) =>
    /\ lastRet'.status = 401
    /\ lastRet'.error = ErrInvalidRefreshToken
    /\ ~lastRet'.found
    /\ UNCHANGED <<rts, issued>>
ServerRefreshOnce == [][ServerRefreshStep]_vars

\* The second refresh with a token was answered 401 while a login was
\* waiting for its password check.
ServerRefreshOnceWitness ==
  /\ variant = "server"
  /\ lastRet.op = "refresh"
  /\ lastRet.error = ErrInvalidRefreshToken
  /\ lastRet.arg \in rotated
  /\ \E p \in Procs : pc[p] # "idle"

\* C29: at most one request waits for a refresh call, and isRefreshing
\* holds exactly while one does; failedQueue holds exactly the queued
\* requests and is empty unless a refresh is in progress.  A request that
\* fails with 401 during a refresh is queued and starts none.  When the
\* refresh settles, every queued request is sent again with the new access
\* token, or rejected with the refresh error; failedQueue is empty and
\* isRefreshing is false.
Refreshing == {r \in Requests : client.req[r].st = "refreshing"}
OneRefresh ==
  /\ Cardinality(Refreshing) <= 1
  /\ client.isRefreshing <=> Refreshing # {}
  /\ \A q \in Requests : InQueue(q) <=> client.req[q].st = "queued"
  /\ Len(client.failedQueue) = Cardinality({q \in Requests : InQueue(q)})
  /\ ~client.isRefreshing => client.failedQueue = <<>>
QueueStep ==
  /\ \A r \in Requests :
       (client.isRefreshing /\ client.req[r].st = "sent" /\ ~client.req[r].retry
          /\ client'.req[r].st \notin {"sent", "resolved"}) =>
         \/ client'.req[r].st = "queued" /\ Refreshing' = Refreshing
         \/ client'.req[r].st = "rejected" /\ client'.req[r].err = "500"
  /\ \A r \in Refreshing : client'.req[r].st # "refreshing" =>
       /\ client'.failedQueue = <<>>
       /\ ~client'.isRefreshing
       /\ \/ /\ client'.req[r].st = "sent"
             /\ client'.accessToken # client.accessToken
             /\ client'.req[r].tok = client'.accessToken
             /\ \A q \in Requests : InQueue(q) =>
                  client'.req[q].st = "sent" /\ client'.req[q].tok = client'.accessToken
          \/ /\ client'.req[r].st = "rejected"
             /\ client'.req[r].err = ErrRefreshFailed
             /\ \A q \in Requests : InQueue(q) =>
                  client'.req[q].st = "rejected" /\ client'.req[q].err = ErrRefreshFailed
SingleRefresh == []OneRefresh /\ [][QueueStep]_vars

\* Two requests were queued behind the refresh of a third and have been
\* sent again with the token that the refresh stored.
SingleRefreshWitness ==
  /\ ~client.isRefreshing
  /\ Cardinality({q \in Requests : /\ client.req[q].queued
                                    /\ client.req[q].st = "sent"
                                    /\ client.req[q].tok = client.accessToken}) = 2
  /\ \E r \in Requests : client.req[r].retry /\ client.req[r].st = "sent"

\* C30: every request that failed with 401 and waits, in failedQueue or for
\* its refresh call, is resolved or rejected in the end.
Waiting(r) == client.req[r].st \in {"queued", "refreshing"}
Settled(r) == client.req[r].st \in {"resolved", "rejected"}
EverySettles == \A r \in Requests : Waiting(r) ~> Settled(r)

====
